---- MODULE Spec2Model ----
(***************************************************************************)
(* State-machine model of the agent graphs of Personal-Growth-OS:          *)
(*   - the orchestrator graph  (app/agents/orchestrator/graph.py)          *)
(*   - the supervisor subgraph (app/agents/deep_researcher/                *)
(*                              supervisor_graph.py)                       *)
(*   - the researcher subgraph (.../researcher_graph.py)                   *)
(*   - the deep-researcher main graph (.../main_graph.py)                  *)
(* Each graph has its own specification; the variables of the other        *)
(* graphs stay at their initial values.                                    *)
(*                                                                         *)
(* Message texts are sequences of tokens; a keyword is one token, and      *)
(* "keyword in text" is membership of the token in the lowered text.       *)
(* Python's None is the string "None".                                     *)
(***************************************************************************)
EXTENDS Integers, Sequences, FiniteSets, TLC

VARIABLES
    \* ---- orchestrator graph: OrchestratorState + engine position ----
    pc,               \* node the engine runs next, or END / failed / recursion_error
    step,             \* supersteps executed in the current run
    messages,         \* OrchestratorState.messages
    current_skill,    \* OrchestratorState.current_skill
    skill_sop,        \* OrchestratorState.skill_sop
    available_tools,  \* OrchestratorState.available_tools
    ui_commands,      \* OrchestratorState.ui_commands
    iteration_count,  \* OrchestratorState.iteration_count
    next_id,          \* next fresh message id (ids are assigned when merged)
    plan,             \* the capability calls the model requests in this turn
    visits,           \* history: specialist_node visits in the current run
    llm_calls,        \* history: language-model calls made by router_node
    always_calls,     \* history: every completion of this run requested a call
    llm_provider,     \* settings.LLM_PROVIDER: supported by get_langchain_llm or not
    failed_in,        \* history: the node whose exception ended the run
    turn_text,        \* history: the text of the user message of this turn
    \* ---- supervisor subgraph: SupervisorState + position ----
    sup_pc,               \* node that runs next, or END / failed
    supervisor_messages,  \* SupervisorState.supervisor_messages
    notes,                \* SupervisorState.notes
    research_iterations,  \* SupervisorState.research_iterations
    round_results,        \* history: per round, the results run_research returned
    \* ---- researcher subgraph: ResearcherState + position ----
    res_pc,               \* node that runs next, or END / failed
    researcher_messages,  \* ResearcherState.researcher_messages
    tool_call_iterations, \* ResearcherState.tool_call_iterations
    compressed_research,  \* ResearcherState.compressed_research
    block_content,        \* the provider returns tool-calling replies as content blocks
    tools_visits,         \* history: visits to researcher_tools
    res_failed_in,        \* history: the node whose exception ended the run
    \* ---- deep-researcher main graph: DeepTaskState + position ----
    dt_pc,                \* node that runs next, or START / END / failed
    dt_messages,          \* DeepTaskState.messages
    needs_clarification,  \* DeepTaskState.needs_clarification
    research_brief,       \* DeepTaskState.research_brief
    dt_supervisor_messages, \* DeepTaskState.supervisor_messages
    dt_notes,             \* DeepTaskState.notes
    final_output,         \* DeepTaskState.final_output
    dt_next_id,           \* next fresh message id
    dt_turn,              \* turns started on the thread
    attempts,             \* history: attempts of the last structured completion
    dt_failed_in,         \* history: the node whose exception ended the run
    \* ---- history of the last specialist visit ----
    visit_log,            \* calls requested, tool results fed back, follow-up made
    router_log,           \* history: what the router's structured call did
    \* ---- stream_agent_run: one event stream ----
    ev_pc,                \* position in stream_agent_run
    events,               \* the events yielded so far
    thread_id,            \* thread id of the run
    ev_agent,             \* agent_id of the request
    ev_stream,            \* the stream flag of the request
    chunk_count,          \* chunks received from graph.astream
    \* ---- application startup and the checkpoint store ----
    boot_pc,              \* position in lifespan, or serving / stopped
    db_initialized,       \* init_db() succeeded
    pool,                 \* langgraph_checkpoint._pool
    checkpointer,         \* langgraph_checkpoint._checkpointer
    tables_created,       \* AsyncPostgresSaver.setup() completed
    init_failed,          \* history: init_checkpointer raised
    scheduler_running,    \* init_scheduler() succeeded
    compiled,             \* per agent: how its graph was compiled, or None
    \* ---- SkillRegistry and one skill document ----
    doc,                  \* the document: exists, mtime, content version, parses
    cache,                \* SkillRegistry._cache[name], when present
    file_mtimes,          \* SkillRegistry._file_mtimes[name], when present
    last_call,            \* history: the last load_skill call and what it returned
    \* ---- one override-or-append field under override_reducer ----
    fld,                  \* the field's value (a list)
    fld_none,             \* the field is None (never written)
    upd,                  \* history: the last update applied
    prev,                 \* history: the value before the last update
    prev_none,            \* history: the field was None before the last update
    ops,                  \* updates applied
    \* ---- one call of apply_sliding_window ----
    win_pc,               \* "call" | "done"
    win_messages,         \* the argument messages
    win_size,             \* the argument window_size
    win_out,              \* the list returned
    \* ---- the researchers of one supervisor_tools round ----
    gather_n,             \* researcher runs started by the round's gather
    gather_done,          \* their result records, in the order they finished
    \* ---- one task under the reminder service ----
    now,                  \* the clock
    next_tick,            \* when the scheduler runs the scanner next
    start_time,           \* Task.start_time
    task_status,          \* Task.status
    last_reminder_sent_at,\* Task.last_reminder_sent_at
    reminded,             \* last_reminder_sent_at is set (not None)
    dingtalk_enabled,     \* the notifier is configured
    start_reminders       \* history: start reminders sent for the task

orch_vars == <<pc, step, messages, current_skill, skill_sop, available_tools,
               ui_commands, iteration_count, next_id, plan, visits, llm_calls,
               always_calls, llm_provider, turn_text, failed_in>>

sup_vars == <<sup_pc, supervisor_messages, notes, research_iterations,
              round_results>>

res_vars == <<res_pc, researcher_messages, tool_call_iterations,
              compressed_research, block_content, tools_visits, res_failed_in>>

main_vars == <<dt_pc, dt_messages, needs_clarification, research_brief,
               dt_supervisor_messages, dt_notes, final_output, dt_next_id,
               dt_turn, attempts, dt_failed_in>>

visit_vars == <<visit_log, router_log>>

stream_vars == <<ev_pc, events, thread_id, ev_agent, ev_stream, chunk_count>>

\* The components that are not graphs.
boot_vars == <<boot_pc, db_initialized, pool, checkpointer, tables_created,
               init_failed, scheduler_running, compiled>>

reg_vars == <<doc, cache, file_mtimes, last_call>>

fld_vars == <<fld, fld_none, upd, prev, prev_none, ops>>

win_vars == <<win_pc, win_messages, win_size, win_out>>

gather_vars == <<gather_n, gather_done>>

rem_vars == <<now, next_tick, start_time, task_status, last_reminder_sent_at,
              reminded, dingtalk_enabled, start_reminders>>

aux_vars ==
    <<stream_vars, boot_vars, reg_vars, fld_vars, win_vars, gather_vars, rem_vars>>

ext_vars == <<visit_vars, aux_vars>>

graph_vars == <<orch_vars, sup_vars, res_vars, main_vars, visit_vars>>

vars == <<orch_vars, sup_vars, res_vars, main_vars, ext_vars>>

None == "None"

\* ---------------------------------------------------------------------
\* Program constants
\* ---------------------------------------------------------------------
\* graph.py:36, the ceiling on specialist visits.
MAX_ITERATIONS == 15
\* The graph engine's default ceiling on supersteps of one run: the config
\* built in stream_agent_run (chat.py:109-113) sets only thread_id, so the
\* engine's default recursion_limit of 25 applies to every graph.
RecursionLimit == 25
\* graph.py:238, window_size passed to apply_sliding_window.
WindowSize == 10

\* ---------------------------------------------------------------------
\* Bounds of the model
\* ---------------------------------------------------------------------
MaxPriorTurns == 5

\* ---------------------------------------------------------------------
\* Messages
\* ---------------------------------------------------------------------
Msg(id, type, content, tool_calls, tool_call_id, name) ==
    [id |-> id, type |-> type, content |-> content, tool_calls |-> tool_calls,
     tool_call_id |-> tool_call_id, name |-> name]

HumanMessage(content) == Msg(0, "human", content, <<>>, <<>>, None)
AIMessage(content, tool_calls) == Msg(0, "ai", content, tool_calls, <<>>, None)
ToolMessage(content, tool_call_id, name) ==
    Msg(0, "tool", content, <<>>, tool_call_id, name)
SystemMessage(content) == Msg(0, "system", content, <<>>, <<>>, None)

\* A message without an id gets a fresh one when it is merged into the state.
RECURSIVE AssignIds(_, _)
AssignIds(msgs, first) ==
    IF msgs = <<>> THEN <<>>
    ELSE IF Head(msgs).id = 0
         THEN <<[Head(msgs) EXCEPT !.id = first]>> \o AssignIds(Tail(msgs), first + 1)
         ELSE <<Head(msgs)>> \o AssignIds(Tail(msgs), first)

FreshCount(msgs) == Cardinality({i \in 1..Len(msgs) : msgs[i].id = 0})

IndexOfId(msgs, id) ==
    IF \E i \in 1..Len(msgs) : msgs[i].id = id
    THEN CHOOSE i \in 1..Len(msgs) : msgs[i].id = id
    ELSE 0

\* add_messages, the reducer of OrchestratorState.messages: a message whose
\* id is already in the list replaces that entry in place, any other message
\* is appended.  Nothing is removed.
RECURSIVE add_messages(_, _)
add_messages(left, right) ==
    IF right = <<>> THEN left
    ELSE LET m == Head(right)
             i == IndexOfId(left, m.id)
         IN  IF i > 0
             THEN add_messages([left EXCEPT ![i] = m], Tail(right))
             ELSE add_messages(Append(left, m), Tail(right))

IsSystem(m) == m.type = "system"
IsNotSystem(m) == m.type # "system"
NonSystem(msgs) == SelectSeq(msgs, IsNotSystem)
SystemOnly(msgs) == SelectSeq(msgs, IsSystem)

\* The slice seq[-n:] of the source language: the last n entries for n > 0
\* (all of them when there are fewer), and the whole list for n = 0, where
\* the start index -0 is the index 0.
slice_last(seq, n) ==
    IF n = 0 THEN seq
    ELSE SubSeq(seq, (IF Len(seq) > n THEN Len(seq) - n ELSE 0) + 1, Len(seq))

\* apply_sliding_window: all system messages, then other_msgs[-window_size:]
\* when there are more than window_size non-system messages.
apply_sliding_window(msgs, window_size) ==
    LET system_msgs == SystemOnly(msgs)
        other_msgs == NonSystem(msgs)
        kept == IF Len(other_msgs) > window_size
                THEN slice_last(other_msgs, window_size)
                ELSE other_msgs
    IN  system_msgs \o kept

\* ---------------------------------------------------------------------
\* Router
\* ---------------------------------------------------------------------
TASK_KEYWORDS == {"delete task", "create task", "snooze"}
NOTE_KEYWORDS == {"create note", "search note"}

\* str.lower() on a token.
Lower(tok) ==
    CASE tok = "DELETE TASK" -> "delete task"
      [] tok = "Create Note" -> "create note"
      [] OTHER -> tok

LowerText(text) == [i \in 1..Len(text) |-> Lower(text[i])]

Contains(text, keyword) == \E i \in 1..Len(text) : text[i] = keyword

HumanIndexes(msgs) == {i \in 1..Len(msgs) : msgs[i].type = "human"}

\* The content of the most recent HumanMessage; the empty text when there
\* is none.
last_user_msg(msgs) ==
    IF HumanIndexes(msgs) = {} THEN <<>>
    ELSE LET i == CHOOSE j \in HumanIndexes(msgs) : \A k \in HumanIndexes(msgs) : k <= j
         IN  msgs[i].content

\* What the router's collaborators do in one call:
\*   catalog    - get_all_skill_descriptions() returns a list that is empty or not
\*   structured - structured_model.invoke returns a decision, None, or raises
\*   fallback   - model.invoke(simple_prompt) and the JSON extraction
\*   skill      - the skill name the model answers with
RouterEnvs ==
    [catalog : {"empty", "some"},
     structured : {"activate", "decline", "none", "raises"},
     fallback : {"activate", "decline", "no_json", "bad_json", "raises"},
     skill : {"task_manager", "note_manager", "ghost_skill"}]

RouterResult(raised, skill, calls) ==
    [raised |-> raised, current_skill |-> skill, llm_calls |-> calls]

\* As router_node, with the note keywords scanned before the task keywords.
router_node_notes_first(msgs, provider, env) ==
    LET text == last_user_msg(msgs)
        msg_lower == LowerText(text)
    IN  IF text = <<>> THEN RouterResult(FALSE, None, 0)
        ELSE IF \E kw \in NOTE_KEYWORDS : Contains(msg_lower, kw)
             THEN RouterResult(FALSE, "note_manager", 0)
        ELSE IF \E kw \in TASK_KEYWORDS : Contains(msg_lower, kw)
             THEN RouterResult(FALSE, "task_manager", 0)
        ELSE IF env.catalog = "empty" THEN RouterResult(FALSE, None, 0)
        ELSE IF provider = "unsupported" THEN RouterResult(TRUE, None, 0)
        ELSE CASE env.structured = "raises" -> RouterResult(FALSE, None, 1)
               [] env.structured = "activate" -> RouterResult(FALSE, env.skill, 1)
               [] env.structured = "decline" -> RouterResult(FALSE, None, 1)
               [] env.structured = "none" ->
                    IF env.fallback = "activate"
                    THEN RouterResult(FALSE, env.skill, 2)
                    ELSE RouterResult(FALSE, None, 2)

\* router_node: the update it returns, whether it raised, and how many
\* language-model calls it made.
router_node(msgs, provider, env) ==
    LET text == last_user_msg(msgs)
        msg_lower == LowerText(text)
    IN  IF text = <<>> THEN RouterResult(FALSE, None, 0)
        ELSE IF \E kw \in TASK_KEYWORDS : Contains(msg_lower, kw)
             THEN RouterResult(FALSE, "task_manager", 0)
        ELSE IF \E kw \in NOTE_KEYWORDS : Contains(msg_lower, kw)
             THEN RouterResult(FALSE, "note_manager", 0)
        ELSE IF env.catalog = "empty" THEN RouterResult(FALSE, None, 0)
        ELSE IF provider = "unsupported" THEN RouterResult(TRUE, None, 0)
        ELSE CASE env.structured = "raises" -> RouterResult(FALSE, None, 1)
               [] env.structured = "activate" -> RouterResult(FALSE, env.skill, 1)
               [] env.structured = "decline" -> RouterResult(FALSE, None, 1)
               [] env.structured = "none" ->
                    IF env.fallback = "activate"
                    THEN RouterResult(FALSE, env.skill, 2)
                    ELSE RouterResult(FALSE, None, 2)

route_after_router(skill) == IF skill # None THEN "loader" ELSE "idle"

\* ---------------------------------------------------------------------
\* Loader
\* ---------------------------------------------------------------------
\* Names registered in TOOL_REGISTRY (one creating and one listing task
\* tool, one note tool).
TOOL_REGISTRY == {"task_create", "task_list", "note_search"}

\* The tools list a skill document may declare.
SkillToolLists ==
    {<<"task_create", "task_list">>, <<"note_search">>,
     <<"task_create", "note_search">>, <<"task_create", "bogus_tool">>, <<>>}

\* loader_node: the update it returns.  doc_ok is whether load_skill and
\* get_skill_sop_for_injection returned; tools is the document's tools list.
loader_node(msgs, skill_name, doc_ok, tools) ==
    IF skill_name = None THEN [kind |-> "empty"]
    ELSE IF doc_ok
         THEN [kind |-> "loaded", skill_sop |-> "sop", available_tools |-> tools,
               messages |-> apply_sliding_window(msgs, WindowSize),
               iteration_count |-> 0]
         ELSE [kind |-> "error", skill_sop |-> None, available_tools |-> <<>>]

\* ---------------------------------------------------------------------
\* Specialist
\* ---------------------------------------------------------------------
Call(name, outcome) == [name |-> name, outcome |-> outcome]

\* The request lists a turn's completions may carry: name of the capability
\* and what invoking it does.
Plans ==
    {<<Call("task_create", "ok")>>,
     <<Call("task_create", "raises")>>,
     <<Call("note_search", "ok")>>,
     <<Call("task_create", "ok"), Call("note_search", "ok")>>,
     <<Call("note_search", "ok"), Call("task_list", "raises")>>,
     <<Call("task_list", "crud_raises")>>,
     <<Call("web_search", "ok")>>}

\* What the model does in one specialist visit.
SpecialistEnvs ==
    [first_raises : BOOLEAN, first_calls : BOOLEAN,
     final_raises : BOOLEAN, final_calls : BOOLEAN]

ToolCalls(calls, visit, phase) ==
    [i \in 1..Len(calls) |-> [name |-> calls[i].name, id |-> <<visit, phase, i>>]]

StartsWith(name, prefix) ==
    CASE prefix = "task_" -> name \in {"task_create", "task_list"}
      [] prefix = "note_" -> name \in {"note_search"}
      [] OTHER -> FALSE

InSeq(x, seq) == \E i \in 1..Len(seq) : seq[i] = x

\* ToolFactory.from_crud.wrapped_func: the string a registered capability
\* returns; an exception of the CRUD function is caught and returned as text.
wrapped_func(outcome) ==
    IF outcome = "crud_raises" THEN <<"Error:">> ELSE <<"result">>

\* As ToolResult, with the default call id in place of the requested one.
ToolResult_default_id(call, tc, tool_names) ==
    IF InSeq(call.name, tool_names)
    THEN IF call.outcome = "raises"
         THEN ToolMessage(<<"Error executing">>, <<0, 0, 0>>, tc.name)
         ELSE ToolMessage(wrapped_func(call.outcome), tc.id, tc.name)
    ELSE ToolMessage(<<"not found">>, tc.id, tc.name)

\* The ToolMessage specialist_node builds for one requested call: outcome
\* "raises" is an exception leaving tool.invoke (argument validation, or a
\* capability that is not built by the factory).
ToolResult(call, tc, tool_names) ==
    IF InSeq(call.name, tool_names)
    THEN IF call.outcome = "raises"
         THEN ToolMessage(<<"Error executing">>, tc.id, tc.name)
         ELSE ToolMessage(wrapped_func(call.outcome), tc.id, tc.name)
    ELSE ToolMessage(<<"not found">>, tc.id, tc.name)

\* The loop over response.tool_calls that builds ui_commands: the first call
\* with a task_ or note_ prefix adds one refresh command and ends the loop.
RECURSIVE UiCommandsOf(_)
UiCommandsOf(tool_calls) ==
    IF tool_calls = <<>> THEN <<>>
    ELSE IF StartsWith(Head(tool_calls).name, "task_")
         THEN <<[type |-> "refresh", target |-> "tasks"]>>
    ELSE IF StartsWith(Head(tool_calls).name, "note_")
         THEN <<[type |-> "refresh", target |-> "notes"]>>
    ELSE UiCommandsOf(Tail(tool_calls))

Update(msgs, counts, has_ui, ui) ==
    [messages |-> msgs, counts |-> counts, has_ui |-> has_ui, ui_commands |-> ui]

\* specialist_node: the update it returns.  counts is whether the update
\* carries iteration_count + 1, has_ui whether it carries ui_commands.
specialist_node(tool_names, calls, visit, env) ==
    IF tool_names = <<>>
    THEN Update(<<AIMessage(<<"No tools available">>, <<>>)>>, FALSE, TRUE, <<>>)
    ELSE IF \E i \in 1..Len(tool_names) : tool_names[i] \notin TOOL_REGISTRY
    THEN Update(<<AIMessage(<<"Failed to load tools">>, <<>>)>>, FALSE, TRUE, <<>>)
    ELSE IF env.first_raises
    THEN Update(<<AIMessage(<<"Error during execution">>, <<>>)>>, FALSE, FALSE, <<>>)
    ELSE IF env.first_calls
    THEN LET tcs == ToolCalls(calls, visit, 1)
             response == AIMessage(<<"response">>, tcs)
             tool_results == [i \in 1..Len(calls) |-> ToolResult(calls[i], tcs[i], tool_names)]
             final_response ==
                 AIMessage(<<"final">>,
                           IF env.final_calls
                           THEN ToolCalls(<<Call("task_list", "ok")>>, visit, 2)
                           ELSE <<>>)
         IN  IF env.final_raises
             THEN Update(<<AIMessage(<<"Error during execution">>, <<>>)>>, FALSE, FALSE, <<>>)
             ELSE Update(<<response>> \o tool_results \o <<final_response>>, TRUE,
                         TRUE, UiCommandsOf(tcs))
    ELSE Update(<<AIMessage(<<"response">>, <<>>)>>, TRUE, FALSE, <<>>)

\* What one visit of specialist_node did with the first completion's calls:
\* the calls requested, the tool results built for them, and whether the
\* follow-up completion was invoked with them.
VisitLog(requested, results, followup) ==
    [requested |-> requested, results |-> results, followup |-> followup]

NoVisit == VisitLog(<<>>, <<>>, FALSE)

specialist_visit(tool_names, calls, visit, env) ==
    IF \/ tool_names = <<>>
       \/ \E i \in 1..Len(tool_names) : tool_names[i] \notin TOOL_REGISTRY
       \/ env.first_raises
       \/ ~env.first_calls
    THEN NoVisit
    ELSE LET tcs == ToolCalls(calls, visit, 1)
         IN  VisitLog(tcs,
                      [i \in 1..Len(calls) |-> ToolResult(calls[i], tcs[i], tool_names)],
                      TRUE)

\* ---------------------------------------------------------------------
\* Continuation check
\* ---------------------------------------------------------------------
AIIndexes(msgs) == {i \in 1..Len(msgs) : msgs[i].type = "ai"}

\* continue_check: TRUE when it returns {"current_skill": None}, FALSE when
\* it returns the empty update.
continue_check(msgs, count) ==
    IF count >= MAX_ITERATIONS THEN TRUE
    ELSE IF AIIndexes(msgs) = {} THEN TRUE
    ELSE LET i == CHOOSE j \in AIIndexes(msgs) : \A k \in AIIndexes(msgs) : k <= j
         IN  msgs[i].tool_calls = <<>>

route_after_continue(skill) == IF skill # None THEN "specialist" ELSE "END"

\* ---------------------------------------------------------------------
\* Idle
\* ---------------------------------------------------------------------
\* idle_response_node: the message it returns (the model's reply, or the
\* canned greeting when there is no user text or the model call raises).
idle_response_node(msgs, model_raises) ==
    IF last_user_msg(msgs) = <<>> \/ model_raises
    THEN <<AIMessage(<<"Hi! How can I help you today?">>, <<>>)>>
    ELSE <<AIMessage(<<"reply">>, <<>>)>>

\* ---------------------------------------------------------------------
\* The orchestrator graph run by the engine
\* ---------------------------------------------------------------------
OrchNodes == {"router", "loader", "specialist", "continue_check", "idle"}

\* As Merge, with the new messages taking the place of the history.
Merge_overriding(new) == AssignIds(new, next_id)

\* Merging a list of new messages into the state.
Merge(new) == add_messages(messages, AssignIds(new, next_id))

\* The tokens a user message is made of.
Tokens == {"delete task", "DELETE TASK", "create note", "hello"}
Texts == {<<>>} \cup {<<a>> : a \in Tokens} \cup {<<a, b>> : a, b \in Tokens}

\* A thread on which k earlier turns were answered by the idle node.
PriorHistory(k, text) ==
    [i \in 1..(2 * k) |->
        IF i % 2 = 1
        THEN [HumanMessage(text) EXCEPT !.id = i]
        ELSE [AIMessage(<<"reply">>, <<>>) EXCEPT !.id = i]]

OrchInit(turns, texts) ==
    /\ pc = "START"
    /\ step = 0
    /\ \E k \in turns, text \in texts :
         /\ messages = PriorHistory(k, text)
         /\ next_id = 2 * k + 1
    /\ llm_provider \in {"supported", "unsupported"}
    /\ failed_in = None
    /\ current_skill = None
    /\ skill_sop = None
    /\ available_tools = <<>>
    /\ ui_commands = <<>>
    /\ iteration_count = 0
    /\ plan = <<>>
    /\ visits = 0
    /\ llm_calls = 0
    /\ always_calls = TRUE
    /\ turn_text = <<>>

\* stream_agent_run: the per-turn input is merged into the thread's state and
\* the run enters the graph at the router.
StartTurn(text, p) ==
    /\ pc = "START"
    /\ UNCHANGED <<sup_vars, res_vars, main_vars, ext_vars>>
    /\ pc' = "router"
    /\ step' = 0
    /\ messages' = Merge(<<HumanMessage(text)>>)
    /\ next_id' = next_id + 1
    /\ current_skill' = None
    /\ skill_sop' = None
    /\ available_tools' = <<>>
    /\ ui_commands' = <<>>
    /\ iteration_count' = 0
    /\ plan' = p
    /\ visits' = 0
    /\ llm_calls' = 0
    /\ always_calls' = TRUE
    /\ turn_text' = text
    /\ UNCHANGED <<llm_provider, failed_in>>

RouterNode ==
    /\ pc = "router"
    /\ UNCHANGED <<sup_vars, res_vars, main_vars, aux_vars, visit_log>>
    /\ step < RecursionLimit
    /\ \E env \in RouterEnvs :
         LET r == router_node(messages, llm_provider, env)
         IN  /\ llm_calls' = r.llm_calls
             /\ router_log' = IF r.llm_calls >= 1 THEN env.structured
                              ELSE "not called"
             /\ IF r.raised
                THEN /\ pc' = "failed"
                     /\ failed_in' = "router"
                     /\ UNCHANGED current_skill
                ELSE /\ current_skill' = r.current_skill
                     /\ pc' = route_after_router(r.current_skill)
                     /\ UNCHANGED failed_in
    /\ step' = step + 1
    /\ UNCHANGED <<messages, skill_sop, available_tools, ui_commands,
                   iteration_count, next_id, plan, visits, always_calls,
                   llm_provider, turn_text>>

LoaderNode ==
    /\ pc = "loader"
    /\ UNCHANGED <<sup_vars, res_vars, main_vars, ext_vars>>
    /\ step < RecursionLimit
    /\ \E doc_ok \in BOOLEAN, tools \in SkillToolLists :
         LET u == loader_node(messages, current_skill, doc_ok, tools)
         IN  CASE u.kind = "loaded" ->
                    /\ skill_sop' = u.skill_sop
                    /\ available_tools' = u.available_tools
                    /\ messages' = add_messages(messages, u.messages)
                    /\ iteration_count' = u.iteration_count
               [] u.kind = "error" ->
                    /\ skill_sop' = u.skill_sop
                    /\ available_tools' = u.available_tools
                    /\ UNCHANGED <<messages, iteration_count>>
               [] OTHER ->
                    UNCHANGED <<skill_sop, available_tools, messages, iteration_count>>
    /\ pc' = "specialist"
    /\ step' = step + 1
    /\ UNCHANGED <<current_skill, ui_commands, next_id, plan, visits, llm_calls,
                   always_calls, llm_provider, turn_text, failed_in>>

SpecialistNode ==
    /\ pc = "specialist"
    /\ UNCHANGED <<sup_vars, res_vars, main_vars, aux_vars, router_log>>
    /\ step < RecursionLimit
    /\ visits' = visits + 1
    /\ step' = step + 1
    /\ IF /\ available_tools # <<>>
          /\ \A i \in 1..Len(available_tools) : available_tools[i] \in TOOL_REGISTRY
          /\ llm_provider = "unsupported"
       THEN \* get_langchain_llm() raises outside the try block
            /\ pc' = "failed"
            /\ failed_in' = "specialist"
            /\ always_calls' = FALSE
            /\ visit_log' = NoVisit
            /\ UNCHANGED <<messages, next_id, iteration_count, ui_commands>>
       ELSE \E env \in SpecialistEnvs :
              LET u == specialist_node(available_tools, plan, visits + 1, env)
              IN  /\ messages' = Merge(u.messages)
                  /\ visit_log' = specialist_visit(available_tools, plan,
                                                   visits + 1, env)
                  /\ next_id' = next_id + Len(u.messages)
                  /\ iteration_count' = IF u.counts THEN iteration_count + 1
                                        ELSE iteration_count
                  /\ ui_commands' = IF u.has_ui THEN u.ui_commands ELSE ui_commands
                  /\ always_calls' = (always_calls /\ u.counts /\ env.first_calls
                                      /\ env.final_calls)
                  /\ pc' = "continue_check"
                  /\ UNCHANGED failed_in
    /\ UNCHANGED <<current_skill, skill_sop, available_tools, plan, llm_calls,
                   llm_provider, turn_text>>

ContinueCheck ==
    /\ pc = "continue_check"
    /\ UNCHANGED <<sup_vars, res_vars, main_vars, ext_vars>>
    /\ step < RecursionLimit
    /\ step' = step + 1
    /\ current_skill' = IF continue_check(messages, iteration_count)
                        THEN None ELSE current_skill
    /\ pc' = route_after_continue(current_skill')
    /\ UNCHANGED <<messages, skill_sop, available_tools, ui_commands,
                   iteration_count, next_id, plan, visits, llm_calls,
                   always_calls, llm_provider, turn_text, failed_in>>

IdleNode ==
    /\ pc = "idle"
    /\ UNCHANGED <<sup_vars, res_vars, main_vars, ext_vars>>
    /\ step < RecursionLimit
    /\ step' = step + 1
    /\ IF llm_provider = "unsupported"
       THEN \* get_langchain_llm() raises before the try block
            /\ pc' = "failed"
            /\ failed_in' = "idle"
            /\ UNCHANGED <<messages, next_id>>
       ELSE \E model_raises \in BOOLEAN :
              /\ messages' = Merge(idle_response_node(messages, model_raises))
              /\ next_id' = next_id + 1
              /\ pc' = "END"
              /\ UNCHANGED failed_in
    /\ UNCHANGED <<current_skill, skill_sop, available_tools, ui_commands,
                   iteration_count, plan, visits, llm_calls, always_calls,
                   llm_provider, turn_text>>

\* The engine stops a run that has not reached END within the recursion
\* limit.
EngineAbort ==
    /\ pc \in OrchNodes
    /\ UNCHANGED <<sup_vars, res_vars, main_vars, ext_vars>>
    /\ step >= RecursionLimit
    /\ pc' = "recursion_error"
    /\ UNCHANGED <<step, messages, current_skill, skill_sop, available_tools,
                   ui_commands, iteration_count, next_id, plan, visits,
                   llm_calls, always_calls, llm_provider, turn_text, failed_in>>

\* ---------------------------------------------------------------------
\* Reducers of the research states
\* ---------------------------------------------------------------------
\* An update of an override-or-append field is a plain list or the envelope
\* {"type": "override", "value": v}.
Plain(v) == [type |-> "list", value |-> v]
Override(v) == [type |-> "override", value |-> v]

\* As override_reducer, with the value of an override envelope appended.
override_reducer_appending(current_value, new_value) ==
    current_value \o new_value.value

override_reducer(current_value, new_value) ==
    IF new_value.type = "override"
    THEN new_value.value
    ELSE current_value \o new_value.value

\* "if current_value is None: current_value = []" of override_reducer.
current_list(is_none, current_value) == IF is_none THEN <<>> ELSE current_value

\* ---------------------------------------------------------------------
\* Supervisor subgraph
\* ---------------------------------------------------------------------
SUP_MAX_ITERATIONS == 6

SupCall(name, topic) == [name |-> name, topic |-> topic]

\* The tool calls one supervisor completion may carry.
SupRequests ==
    {<<>>,
     <<SupCall("ResearchComplete", None)>>,
     <<SupCall("ConductResearch", "A"), SupCall("ConductResearch", "B")>>,
     <<SupCall("think_tool", None)>>,
     <<SupCall("think_tool", None), SupCall("ConductResearch", "A")>>,
     <<SupCall("ConductResearch", "A"), SupCall("ResearchComplete", None)>>}

SupToolCalls(calls, round) ==
    [i \in 1..Len(calls) |->
        [name |-> calls[i].name, topic |-> calls[i].topic, id |-> <<round, i>>]]

Text(kind, of) == [kind |-> kind, of |-> of]

system_limit == <<0, 0>>

\* supervisor_node: where it goes after a completion with these tool calls.
supervisor_goto(tool_calls) ==
    IF tool_calls # <<>>
    THEN IF \E i \in 1..Len(tool_calls) : tool_calls[i].name = "ResearchComplete"
         THEN "END"
         ELSE "supervisor_tools"
    ELSE "END"

IsConductResearch(tc) == tc.name = "ConductResearch"
IsThinkTool(tc) == tc.name = "think_tool"

\* run_research: the result record of one delegation; ok is whether the
\* researcher subgraph returned or raised.
run_research(task, ok) ==
    IF ok
    THEN [tool_call_id |-> task.id, result |-> Text("compressed", task.id),
          success |-> TRUE]
    ELSE [tool_call_id |-> task.id, result |-> Text("research failed", task.id),
          success |-> FALSE]

\* As RoundToolMessages, but a failed researcher leaves no entry.
RoundToolMessagesOfSuccesses(think_calls, results) ==
    [i \in 1..Len(think_calls) |->
        ToolMessage(Text("reflection", think_calls[i].id), think_calls[i].id, None)]
    \o LET good == SelectSeq(results, LAMBDA r : r.success)
       IN  [i \in 1..Len(good) |->
               ToolMessage(good[i].result, good[i].tool_call_id, None)]

\* The ToolMessages of a round: the reflections, then one per result.
RoundToolMessages(think_calls, results) ==
    [i \in 1..Len(think_calls) |->
        ToolMessage(Text("reflection", think_calls[i].id), think_calls[i].id, None)]
    \o [i \in 1..Len(results) |->
        ToolMessage(results[i].result, results[i].tool_call_id, None)]

IsSuccess(res) == res.success

NewNotes(results) ==
    LET good == SelectSeq(results, IsSuccess)
    IN  [i \in 1..Len(good) |-> good[i].result]

\* As LimitReached, with > for >=.
LimitReachedLate(new_iterations) == new_iterations > SUP_MAX_ITERATIONS

\* Whether the round that brings the counter to new_iterations is the last.
LimitReached(new_iterations) == new_iterations >= SUP_MAX_ITERATIONS

\* supervisor_tools from the results of its gather on: the Command it returns.
supervisor_tools_of(last_message, state_notes, iterations, results) ==
    LET think_calls == SelectSeq(last_message.tool_calls, IsThinkTool)
        tool_messages == RoundToolMessages(think_calls, results)
        new_notes == NewNotes(results)
        new_iterations == iterations + 1
    IN  IF LimitReached(new_iterations)
        THEN [goto |-> "END",
              supervisor_messages |->
                  Plain(Append(tool_messages,
                               ToolMessage(Text("limit reached", system_limit),
                                           system_limit, None))),
              notes |-> Plain(state_notes \o new_notes),
              research_iterations |-> new_iterations,
              results |-> results]
        ELSE [goto |-> "supervisor",
              supervisor_messages |-> Plain(tool_messages),
              notes |-> Plain(state_notes \o new_notes),
              research_iterations |-> new_iterations,
              results |-> results]

\* supervisor_tools: the Command it returns, given what each researcher did.
supervisor_tools(last_message, state_notes, iterations, oks) ==
    LET research_tasks == SelectSeq(last_message.tool_calls, IsConductResearch)
    IN  supervisor_tools_of(last_message, state_notes, iterations,
            [i \in 1..Len(research_tasks) |-> run_research(research_tasks[i], oks[i])])

\* research_supervisor starts the subgraph with an empty state.
SupInit ==
    /\ sup_pc = "supervisor"
    /\ supervisor_messages = <<>>
    /\ notes = <<>>
    /\ research_iterations = 0
    /\ round_results = <<>>

SupervisorNode ==
    /\ sup_pc = "supervisor"
    /\ UNCHANGED <<orch_vars, res_vars, main_vars, ext_vars>>
    /\ \/ \* the completion raises
          /\ sup_pc' = "failed"
          /\ UNCHANGED supervisor_messages
       \/ \E calls \in SupRequests :
            LET tcs == SupToolCalls(calls, research_iterations + 1)
                response == AIMessage(Text("response", <<research_iterations + 1, 0>>), tcs)
            IN  /\ supervisor_messages' =
                      override_reducer(supervisor_messages, Plain(<<response>>))
                /\ sup_pc' = supervisor_goto(tcs)
    /\ UNCHANGED <<notes, research_iterations, round_results>>

SupervisorTools ==
    /\ sup_pc = "supervisor_tools"
    /\ UNCHANGED <<orch_vars, res_vars, main_vars, ext_vars>>
    /\ LET last_message == supervisor_messages[Len(supervisor_messages)]
           n == Len(SelectSeq(last_message.tool_calls, IsConductResearch))
       IN  \E oks \in [1..n -> BOOLEAN] :
             LET c == supervisor_tools(last_message, notes, research_iterations, oks)
             IN  /\ supervisor_messages' =
                       override_reducer(supervisor_messages, c.supervisor_messages)
                 /\ notes' = override_reducer(notes, c.notes)
                 /\ research_iterations' = c.research_iterations
                 /\ round_results' = Append(round_results, c.results)
                 /\ sup_pc' = c.goto

\* ---------------------------------------------------------------------
\* supervisor_tools with its researchers running concurrently
\* ---------------------------------------------------------------------
GatherIdle ==
    /\ gather_n = 0
    /\ gather_done = <<>>

\* The researcher runs of the round that have not finished.
Running == {i \in 1..gather_n : \A j \in 1..Len(gather_done) : gather_done[j].index # i}

\* As gather_returns, but the first finished run releases the caller.
gather_returns_first(n, done) == n = 0 \/ Len(done) >= 1

\* await asyncio.gather(...) returns once every awaitable has finished.
gather_returns(n, done) == Len(done) = n

\* As asyncio_gather, with the results in the order the runs finished.
asyncio_gather_as_completed(n, done) == [j \in 1..Len(done) |-> done[j].res]

\* The list asyncio.gather returns: the results of the finished awaitables
\* in the order of its arguments.
RECURSIVE asyncio_gather_from(_, _, _)
asyncio_gather_from(i, n, done) ==
    IF i > n THEN <<>>
    ELSE (IF \E j \in 1..Len(done) : done[j].index = i
          THEN <<done[CHOOSE j \in 1..Len(done) : done[j].index = i].res>>
          ELSE <<>>)
         \o asyncio_gather_from(i + 1, n, done)

asyncio_gather(n, done) == asyncio_gather_from(1, n, done)

\* supervisor_tools up to its await: the reflections are executed and
\* gather starts one run_research per ConductResearch call.
GatherLaunch ==
    /\ sup_pc = "supervisor_tools"
    /\ sup_pc' = "gathering"
    /\ LET last_message == supervisor_messages[Len(supervisor_messages)]
       IN  gather_n' = Len(SelectSeq(last_message.tool_calls, IsConductResearch))
    /\ gather_done' = <<>>
    /\ UNCHANGED <<supervisor_messages, notes, research_iterations, round_results>>
    /\ UNCHANGED <<orch_vars, res_vars, main_vars, visit_vars, stream_vars,
                   boot_vars, reg_vars, fld_vars, win_vars, rem_vars>>

\* One running run_research finishes: the researcher subgraph returned or
\* raised, and either way run_research returns a result record.
ResearcherFinishes ==
    /\ sup_pc = "gathering"
    /\ \E i \in Running, ok \in BOOLEAN :
         LET last_message == supervisor_messages[Len(supervisor_messages)]
             research_tasks == SelectSeq(last_message.tool_calls, IsConductResearch)
         IN  gather_done' = Append(gather_done,
                 [index |-> i, res |-> run_research(research_tasks[i], ok)])
    /\ UNCHANGED <<sup_vars, gather_n>>
    /\ UNCHANGED <<orch_vars, res_vars, main_vars, visit_vars, stream_vars,
                   boot_vars, reg_vars, fld_vars, win_vars, rem_vars>>

\* gather returns and supervisor_tools runs to its Command.
GatherJoin ==
    /\ sup_pc = "gathering"
    /\ gather_returns(gather_n, gather_done)
    /\ LET last_message == supervisor_messages[Len(supervisor_messages)]
           results == asyncio_gather(gather_n, gather_done)
           c == supervisor_tools_of(last_message, notes, research_iterations, results)
       IN  /\ supervisor_messages' =
                 override_reducer(supervisor_messages, c.supervisor_messages)
           /\ notes' = override_reducer(notes, c.notes)
           /\ research_iterations' = c.research_iterations
           /\ round_results' = Append(round_results, c.results)
           /\ sup_pc' = c.goto
    /\ UNCHANGED gather_vars
    /\ UNCHANGED <<orch_vars, res_vars, main_vars, visit_vars, stream_vars,
                   boot_vars, reg_vars, fld_vars, win_vars, rem_vars>>

\* ---------------------------------------------------------------------
\* TaskReminderService (services/task_reminder_service.py): one task
\* ---------------------------------------------------------------------
\* Clock units in a minute.
UnitsPerMinute == 2

\* The latest start time enumerated, in units after the twelfth minute.
MaxStartOffset == 2

\* timedelta(minutes=11), the scanner's window.
WINDOW_MINUTES == 11

\* timedelta(minutes=10), the repeat guard and the immediate window.
GUARD_MINUTES == 10

Minutes(m) == m * UnitsPerMinute

StartTimes == {Minutes(12) + d : d \in 0..MaxStartOffset}

MaxTime == Minutes(12) + MaxStartOffset + UnitsPerMinute

RemIdle ==
    /\ now = 0
    /\ next_tick = 0
    /\ start_time = 0
    /\ task_status = "off"
    /\ last_reminder_sent_at = 0
    /\ reminded = FALSE
    /\ dingtalk_enabled = FALSE
    /\ start_reminders = 0

\* A task with a start time and no reminder yet; the scheduler's first run
\* falls anywhere in the first minute.
RemInit ==
    /\ now = 0
    /\ next_tick \in 0..(UnitsPerMinute - 1)
    /\ start_time \in StartTimes
    /\ task_status \in {"pending", "completed"}
    /\ last_reminder_sent_at = 0
    /\ reminded = FALSE
    /\ dingtalk_enabled \in BOOLEAN
    /\ start_reminders = 0

\* The filter of _send_start_reminders on the task.
start_reminder_due(t) ==
    /\ start_time >= t
    /\ start_time < t + Minutes(WINDOW_MINUTES)
    /\ task_status \notin {"completed", "archived"}
    /\ \/ ~reminded
       \/ last_reminder_sent_at < start_time - Minutes(GUARD_MINUTES)

\* The conditions under which send_immediate_start_reminder sends: the time
\* to start is within 0..10 minutes and no reminder was sent in the last 10
\* minutes before start_time.
immediate_reminder_due(t) ==
    /\ start_time - t >= 0
    /\ start_time - t <= Minutes(GUARD_MINUTES)
    /\ ~(reminded /\ last_reminder_sent_at >= start_time - Minutes(GUARD_MINUTES))

\* send_task_start_reminder and what follows: on success the time is recorded.
SendStartReminder(success) ==
    IF success
    THEN /\ start_reminders' = start_reminders + 1
         /\ last_reminder_sent_at' = now
         /\ reminded' = TRUE
    ELSE UNCHANGED <<start_reminders, last_reminder_sent_at, reminded>>

AdvanceClock ==
    /\ now < MaxTime
    /\ now < next_tick
    /\ now' = now + 1
    /\ UNCHANGED <<next_tick, start_time, task_status, last_reminder_sent_at,
                   reminded, dingtalk_enabled, start_reminders>>
    /\ UNCHANGED <<graph_vars, stream_vars, boot_vars, reg_vars, fld_vars,
                   win_vars, gather_vars>>

\* check_and_send_reminders, run by the scheduler every minute.
ScannerTick ==
    /\ now = next_tick
    /\ next_tick' = next_tick + Minutes(1)
    /\ IF dingtalk_enabled /\ start_reminder_due(now)
       THEN \E success \in BOOLEAN : SendStartReminder(success)
       ELSE UNCHANGED <<start_reminders, last_reminder_sent_at, reminded>>
    /\ UNCHANGED <<now, start_time, task_status, dingtalk_enabled>>
    /\ UNCHANGED <<graph_vars, stream_vars, boot_vars, reg_vars, fld_vars,
                   win_vars, gather_vars>>

\* send_immediate_start_reminder, called when the task is created or updated.
ImmediateReminder ==
    /\ now <= MaxTime
    /\ IF dingtalk_enabled /\ immediate_reminder_due(now)
       THEN \E success \in BOOLEAN : SendStartReminder(success)
       ELSE UNCHANGED <<start_reminders, last_reminder_sent_at, reminded>>
    /\ UNCHANGED <<now, next_tick, start_time, task_status, dingtalk_enabled>>
    /\ UNCHANGED <<graph_vars, stream_vars, boot_vars, reg_vars, fld_vars,
                   win_vars, gather_vars>>

\* ---------------------------------------------------------------------
\* Structured completions with retry
\* ---------------------------------------------------------------------
RETRY_ATTEMPTS == 3

\* The most consecutive failing answers the model is allowed to give.
MaxFailures == 4

\* llm.with_structured_output(...).with_retry(stop_after_attempt=3), called
\* on a model whose first `fails` answers fail: how many attempts are made and
\* whether the call returns.
with_retry(fails) ==
    [attempts |-> IF fails + 1 < RETRY_ATTEMPTS THEN fails + 1 ELSE RETRY_ATTEMPTS,
     ok |-> fails < RETRY_ATTEMPTS]

\* ---------------------------------------------------------------------
\* Researcher subgraph
\* ---------------------------------------------------------------------
RES_MAX_ITERATIONS == 10

\* The tool calls one researcher completion may carry.
ResRequests ==
    {<<>>, <<"search_knowledge_base">>, <<"think_tool", "web_search">>}

ResToolCalls(names, round) ==
    [i \in 1..Len(names) |-> [name |-> names[i], id |-> <<round, i>>]]

\* researcher_node: where it goes after a completion with these tool calls.
researcher_goto(tool_calls) ==
    IF tool_calls # <<>> THEN "researcher_tools" ELSE "compress_research"

\* The result text of one capability call in researcher_tools.
ResToolText(tc) ==
    CASE tc.name = "search_knowledge_base" -> Text("search result", tc.id)
      [] tc.name = "think_tool" -> Text("reflection", tc.id)
      [] OTHER -> Text("unknown tool", tc.id)

\* As researcher_tools, with > for >= in the ceiling test.
researcher_tools_late(last_message, iterations) ==
    LET tool_messages ==
            [i \in 1..Len(last_message.tool_calls) |->
                ToolMessage(ResToolText(last_message.tool_calls[i]),
                            last_message.tool_calls[i].id, None)]
        new_iterations == iterations + 1
    IN  [goto |-> IF new_iterations > RES_MAX_ITERATIONS
                  THEN "compress_research" ELSE "researcher",
         researcher_messages |-> tool_messages,
         tool_call_iterations |-> new_iterations]

\* researcher_tools: the Command it returns.
researcher_tools(last_message, iterations) ==
    LET tool_messages ==
            [i \in 1..Len(last_message.tool_calls) |->
                ToolMessage(ResToolText(last_message.tool_calls[i]),
                            last_message.tool_calls[i].id, None)]
        new_iterations == iterations + 1
    IN  [goto |-> IF new_iterations >= RES_MAX_ITERATIONS
                  THEN "compress_research" ELSE "researcher",
         researcher_messages |-> tool_messages,
         tool_call_iterations |-> new_iterations]

\* The fallback of compress_research joins the contents with "\n\n"; str.join
\* raises on a content that is a list of blocks.
JoinRaises(msgs) == \E i \in 1..Len(msgs) : msgs[i].content.kind = "blocks"

\* compress_research: what it returns.  r is the retried structured call,
\* usable is whether its answer is a Summary (not None).
compress_research(msgs, r, usable) ==
    IF r.ok /\ usable
    THEN [raised |-> FALSE, compressed_research |-> Text("summary", <<>>)]
    ELSE IF JoinRaises(msgs)
         THEN [raised |-> TRUE, compressed_research |-> Text("", <<>>)]
         ELSE [raised |-> FALSE, compressed_research |-> Text("raw transcript", <<>>)]

\* run_research starts the subgraph with an empty state.
\* operator.add, the reducer of researcher_messages.
operator_add(left, right) == left \o right

ResInit ==
    /\ res_pc = "researcher"
    /\ researcher_messages = <<>>
    /\ tool_call_iterations = 0
    /\ compressed_research = Text("", <<>>)
    /\ block_content \in BOOLEAN
    /\ tools_visits = 0
    /\ res_failed_in = None

ResearcherNode ==
    /\ res_pc = "researcher"
    /\ UNCHANGED <<orch_vars, sup_vars, main_vars, ext_vars>>
    /\ \/ \* the completion raises
          /\ res_pc' = "failed"
          /\ res_failed_in' = "researcher"
          /\ UNCHANGED researcher_messages
       \/ \E names \in ResRequests :
            LET tcs == ResToolCalls(names, tool_call_iterations + 1)
                kind == IF block_content /\ tcs # <<>> THEN "blocks" ELSE "response"
                response == AIMessage(Text(kind, <<tool_call_iterations + 1, 0>>), tcs)
            IN  /\ researcher_messages' = operator_add(researcher_messages, <<response>>)
                /\ res_pc' = researcher_goto(tcs)
                /\ UNCHANGED res_failed_in
    /\ UNCHANGED <<tool_call_iterations, compressed_research, block_content,
                   tools_visits>>

ResearcherTools ==
    /\ res_pc = "researcher_tools"
    /\ UNCHANGED <<orch_vars, sup_vars, main_vars, ext_vars>>
    /\ tools_visits' = tools_visits + 1
    /\ \/ \* a capability rejects its arguments: invoke raises
          /\ res_pc' = "failed"
          /\ res_failed_in' = "researcher_tools"
          /\ UNCHANGED <<researcher_messages, tool_call_iterations>>
       \/ LET c == researcher_tools(researcher_messages[Len(researcher_messages)],
                                    tool_call_iterations)
          IN  /\ researcher_messages' = operator_add(researcher_messages, c.researcher_messages)
              /\ tool_call_iterations' = c.tool_call_iterations
              /\ res_pc' = c.goto
              /\ UNCHANGED res_failed_in
    /\ UNCHANGED <<compressed_research, block_content>>

CompressResearch ==
    /\ res_pc = "compress_research"
    /\ UNCHANGED <<orch_vars, sup_vars, main_vars, ext_vars>>
    /\ \E fails \in 0..MaxFailures, usable \in BOOLEAN :
         LET c == compress_research(researcher_messages, with_retry(fails), usable)
         IN  IF c.raised
             THEN /\ res_pc' = "failed"
                  /\ res_failed_in' = "compress_research"
                  /\ UNCHANGED compressed_research
             ELSE /\ res_pc' = "END"
                  /\ compressed_research' = c.compressed_research
                  /\ UNCHANGED res_failed_in
    /\ UNCHANGED <<researcher_messages, tool_call_iterations, block_content,
                   tools_visits>>

\* ---------------------------------------------------------------------
\* Deep-researcher main graph
\* ---------------------------------------------------------------------
MaxTurns == 2

\* The supervisor subgraph run to its end on a script of model answers; each
\* entry gives the tool calls of one completion and what the researchers it
\* delegates to do.  When the script is used up the model requests nothing.
RECURSIVE SupRun(_, _, _, _)
SupRun(msgs, nts, iters, script) ==
    LET calls == IF script = <<>> THEN <<>> ELSE Head(script).calls
        tcs == SupToolCalls(calls, iters + 1)
        response == AIMessage(Text("response", <<iters + 1, 0>>), tcs)
        msgs1 == override_reducer(msgs, Plain(<<response>>))
    IN  IF supervisor_goto(tcs) = "END"
        THEN [supervisor_messages |-> msgs1, notes |-> nts]
        ELSE LET c == supervisor_tools(response, nts, iters, Head(script).oks)
                 msgs2 == override_reducer(msgs1, c.supervisor_messages)
                 nts2 == override_reducer(nts, c.notes)
             IN  IF c.goto = "END"
                 THEN [supervisor_messages |-> msgs2, notes |-> nts2]
                 ELSE SupRun(msgs2, nts2, c.research_iterations, Tail(script))

SupStep(calls, oks) == [calls |-> calls, oks |-> oks]

\* The scripts research_supervisor's subgraph is run on.
SupScripts ==
    {<<>>,
     <<SupStep(<<SupCall("ConductResearch", "A")>>, <<TRUE>>)>>,
     <<SupStep(<<SupCall("ConductResearch", "A")>>, <<FALSE>>)>>,
     <<SupStep(<<SupCall("ConductResearch", "A"), SupCall("ConductResearch", "B")>>,
               <<TRUE, FALSE>>),
       SupStep(<<SupCall("ConductResearch", "A")>>, <<TRUE>>)>>}

\* get_langchain_llm() raising for an unsupported provider, seen as the
\* outcome of a node's completion: no attempt is made.
get_langchain_llm_raises == [attempts |-> 0, ok |-> FALSE]

\* As clarify_node, going on to the brief after asking the question.
clarify_node_continue(r, need_clarification) ==
    IF ~r.ok THEN [raised |-> TRUE, goto |-> "failed",
                   needs_clarification |-> FALSE, messages |-> <<>>]
    ELSE IF need_clarification
         THEN [raised |-> FALSE, goto |-> "write_research_brief",
               needs_clarification |-> TRUE,
               messages |-> <<AIMessage(<<"question">>, <<>>)>>]
         ELSE [raised |-> FALSE, goto |-> "write_research_brief",
               needs_clarification |-> FALSE,
               messages |-> <<AIMessage(<<"verification">>, <<>>)>>]

\* clarify_node: the Command it returns, or that it raised.
clarify_node(r, need_clarification) ==
    IF ~r.ok THEN [raised |-> TRUE, goto |-> "failed",
                   needs_clarification |-> FALSE, messages |-> <<>>]
    ELSE IF need_clarification
         THEN [raised |-> FALSE, goto |-> "END", needs_clarification |-> TRUE,
               messages |-> <<AIMessage(<<"question">>, <<>>)>>]
         ELSE [raised |-> FALSE, goto |-> "write_research_brief",
               needs_clarification |-> FALSE,
               messages |-> <<AIMessage(<<"verification">>, <<>>)>>]

\* write_research_brief: the Command it returns, or that it raised.
write_research_brief(r) ==
    IF ~r.ok THEN [raised |-> TRUE, goto |-> "failed", research_brief |-> None]
    ELSE [raised |-> FALSE, goto |-> "research_supervisor", research_brief |-> "brief"]

\* research_supervisor: the Command it returns from the subgraph's result.
research_supervisor(result) ==
    [goto |-> "final_decomposition",
     supervisor_messages |-> Plain(result.supervisor_messages),
     notes |-> Plain(result.notes)]

\* An unset text field (Python's None where a text is expected).
NoneText == <<None>>

\* The most subtasks, and the largest index, a completion may answer with.
MaxSubtasks == 6

\* Answers the model may give to the TaskDecomposition request: the number
\* of subtasks and the 0-based minimum_viable_task_index.
Answers ==
    {[subtasks |-> n, minimum_viable_task_index |-> i] :
        n \in 2..MaxSubtasks, i \in {-1, 0, 1, MaxSubtasks}}

\* TaskDecomposition's validation: subtasks has min_length 3 and max_length
\* 5; minimum_viable_task_index is any int.
TaskDecomposition(answer) == answer.subtasks >= 3 /\ answer.subtasks <= 5

\* format_task_decomposition: the title line, then one line per subtask whose
\* marker is the star for i = minimum_viable_task_index and "i+1." otherwise.
format_task_decomposition(decomposition) ==
    <<"title">> \o
    [j \in 1..decomposition.subtasks |->
        IF j - 1 = decomposition.minimum_viable_task_index THEN "star" ELSE "number"]

\* As final_decomposition, with a failure that leaves the output unset.
final_decomposition_unset(r, answer) ==
    IF r.ok
    THEN LET formatted_output == format_task_decomposition(answer)
         IN  [goto |-> "END", final_output |-> formatted_output,
              messages |-> <<AIMessage(formatted_output, <<>>)>>]
    ELSE [goto |-> "END", final_output |-> NoneText, messages |-> <<>>]

\* final_decomposition: the Command it returns; r is the outcome of the
\* retried structured completion and answer the validated decomposition.
final_decomposition(r, answer) ==
    IF r.ok
    THEN LET formatted_output == format_task_decomposition(answer)
         IN  [goto |-> "END", final_output |-> formatted_output,
              messages |-> <<AIMessage(formatted_output, <<>>)>>]
    ELSE LET error_message == <<"error explanation">>
         IN  [goto |-> "END", final_output |-> error_message,
              messages |-> <<AIMessage(error_message, <<>>)>>]

MainFields ==
    /\ dt_messages = <<>>
    /\ needs_clarification = FALSE
    /\ research_brief = None
    /\ dt_supervisor_messages = <<>>
    /\ dt_notes = <<>>
    /\ final_output = NoneText
    /\ dt_next_id = 1
    /\ dt_turn = 0
    /\ attempts = 0
    /\ dt_failed_in = None

MainInit == dt_pc = "START" /\ MainFields

DtMerge(new) == add_messages(dt_messages, AssignIds(new, dt_next_id))

\* stream_agent_run: the per-turn input of the deep researcher is merged into
\* the thread's state through the reducers.
DtStartTurn ==
    /\ dt_pc \in {"START", "END"}
    /\ dt_turn < MaxTurns
    /\ UNCHANGED <<orch_vars, sup_vars, res_vars, ext_vars>>
    /\ dt_turn' = dt_turn + 1
    /\ dt_pc' = "clarify"
    /\ dt_messages' = DtMerge(<<HumanMessage(<<"request">>)>>)
    /\ dt_next_id' = dt_next_id + 1
    /\ needs_clarification' = FALSE
    /\ research_brief' = None
    /\ dt_supervisor_messages' = override_reducer(dt_supervisor_messages, Plain(<<>>))
    /\ dt_notes' = override_reducer(dt_notes, Plain(<<>>))
    /\ final_output' = NoneText
    /\ attempts' = 0
    /\ dt_failed_in' = None

ClarifyNode ==
    /\ dt_pc = "clarify"
    /\ UNCHANGED <<orch_vars, sup_vars, res_vars, ext_vars>>
    /\ \E fails \in 0..MaxFailures, need \in BOOLEAN :
         LET r == IF llm_provider = "unsupported" THEN get_langchain_llm_raises
                  ELSE with_retry(fails)
             c == clarify_node(r, need)
         IN  /\ attempts' = r.attempts
             /\ dt_pc' = c.goto
             /\ IF c.raised
                THEN /\ dt_failed_in' = "clarify"
                     /\ UNCHANGED <<dt_messages, dt_next_id, needs_clarification>>
                ELSE /\ dt_messages' = DtMerge(c.messages)
                     /\ dt_next_id' = dt_next_id + Len(c.messages)
                     /\ needs_clarification' = c.needs_clarification
                     /\ UNCHANGED dt_failed_in
    /\ UNCHANGED <<research_brief, dt_supervisor_messages, dt_notes, final_output,
                   dt_turn>>

WriteResearchBrief ==
    /\ dt_pc = "write_research_brief"
    /\ UNCHANGED <<orch_vars, sup_vars, res_vars, ext_vars>>
    /\ \E fails \in 0..MaxFailures :
         LET r == IF llm_provider = "unsupported" THEN get_langchain_llm_raises
                  ELSE with_retry(fails)
             c == write_research_brief(r)
         IN  /\ attempts' = r.attempts
             /\ dt_pc' = c.goto
             /\ IF c.raised
                THEN /\ dt_failed_in' = "write_research_brief"
                     /\ UNCHANGED research_brief
                ELSE /\ research_brief' = c.research_brief
                     /\ UNCHANGED dt_failed_in
    /\ UNCHANGED <<dt_messages, dt_next_id, needs_clarification,
                   dt_supervisor_messages, dt_notes, final_output, dt_turn>>

ResearchSupervisor ==
    /\ dt_pc = "research_supervisor"
    /\ UNCHANGED <<orch_vars, sup_vars, res_vars, ext_vars>>
    /\ \/ \* a supervisor completion raises inside the subgraph
          /\ dt_pc' = "failed"
          /\ dt_failed_in' = "research_supervisor"
          /\ UNCHANGED <<dt_supervisor_messages, dt_notes>>
       \/ \E script \in SupScripts :
            LET c == research_supervisor(SupRun(<<>>, <<>>, 0, script))
            IN  /\ dt_supervisor_messages' =
                      override_reducer(dt_supervisor_messages, c.supervisor_messages)
                /\ dt_notes' = override_reducer(dt_notes, c.notes)
                /\ dt_pc' = c.goto
                /\ UNCHANGED dt_failed_in
    /\ UNCHANGED <<dt_messages, dt_next_id, needs_clarification, research_brief,
                   final_output, dt_turn, attempts>>

FinalDecomposition ==
    /\ dt_pc = "final_decomposition"
    /\ UNCHANGED <<orch_vars, sup_vars, res_vars, ext_vars>>
    /\ IF llm_provider = "unsupported"
       THEN \* get_langchain_llm() raises before the try block
            /\ dt_pc' = "failed"
            /\ dt_failed_in' = "final_decomposition"
            /\ UNCHANGED <<attempts, final_output, dt_messages, dt_next_id>>
       ELSE \E fails \in 0..MaxFailures, answer \in Answers :
              \* an answer that does not validate is a failed attempt
              LET r == with_retry(IF TaskDecomposition(answer) THEN fails
                                  ELSE RETRY_ATTEMPTS)
                  c == final_decomposition(r, answer)
              IN  /\ attempts' = r.attempts
                  /\ dt_pc' = c.goto
                  /\ final_output' = c.final_output
                  /\ dt_messages' = DtMerge(c.messages)
                  /\ dt_next_id' = dt_next_id + Len(c.messages)
                  /\ UNCHANGED dt_failed_in
    /\ UNCHANGED <<needs_clarification, research_brief, dt_supervisor_messages,
                   dt_notes, dt_turn>>

\* ---------------------------------------------------------------------
\* stream_agent_run (api/endpoints/chat.py): the event stream of one run
\* ---------------------------------------------------------------------
\* The most chunks graph.astream delivers in one run.
MaxChunks == 2

AgentIds == {"orchestrator", "deep-task-researcher", "task-igniter"}

\* session_id of the request: absent, or the id of an existing thread.
SessionIds == {None, "session_1"}

\* RunResponseContent as it is serialised: the event and the session id.
RunResponseContent(event, session_id, data) ==
    [event |-> event, session_id |-> session_id, data |-> data]

\* A message delivered by graph.astream in "messages" mode.
Chunk(type, content, tool_calls) ==
    [type |-> type, content |-> content, tool_calls |-> tool_calls]

Chunks ==
    {Chunk("ai", <<"text">>, <<>>),
     Chunk("ai", <<>>, <<"task_create">>),
     Chunk("AIMessageChunk", <<"text">>, <<"note_search", "web_search">>),
     Chunk("tool", <<"result">>, <<>>)}

\* The events yielded for the tool calls of one chunk: ToolCallStarted, then
\* a refresh command when the name starts with task_ or note_.
RECURSIVE ToolCallEvents(_, _)
ToolCallEvents(tool_calls, tid) ==
    IF tool_calls = <<>> THEN <<>>
    ELSE LET tool_name == Head(tool_calls)
             started == <<RunResponseContent("ToolCallStarted", tid, tool_name)>>
             command ==
                 IF StartsWith(tool_name, "task_")
                 THEN <<RunResponseContent("UICommand", tid, "tasks")>>
                 ELSE IF StartsWith(tool_name, "note_")
                 THEN <<RunResponseContent("UICommand", tid, "notes")>>
                 ELSE <<>>
         IN  started \o command \o ToolCallEvents(Tail(tool_calls), tid)

\* The events yielded for one chunk of the stream.
ChunkEvents(chunk, tid) ==
    (IF chunk.content # <<>> /\ chunk.type \in {"AIMessageChunk", "ai"}
     THEN <<RunResponseContent("RunContent", tid, "text")>>
     ELSE <<>>)
    \o ToolCallEvents(chunk.tool_calls, tid)

\* What the final state of an orchestrator run can hold: ui_commands, and
\* whether a task_ / note_ ToolMessage is among the messages.
FinalStates ==
    [ui_commands : {<<>>, <<"tasks">>, <<"notes">>},
     task_tool_executed : BOOLEAN, note_tool_executed : BOOLEAN]

\* The events yielded from the final state of an orchestrator run.
FinalStateEvents(final_state, tid) ==
    [i \in 1..Len(final_state.ui_commands) |->
        RunResponseContent("UICommand", tid, final_state.ui_commands[i])]
    \o (IF final_state.task_tool_executed /\ final_state.ui_commands = <<>>
        THEN <<RunResponseContent("UICommand", tid, "tasks")>> ELSE <<>>)
    \o (IF final_state.note_tool_executed /\ final_state.ui_commands = <<>>
        THEN <<RunResponseContent("UICommand", tid, "notes")>> ELSE <<>>)

StreamIdle ==
    /\ ev_pc = "idle"
    /\ events = <<>>
    /\ thread_id = None
    /\ ev_agent = None
    /\ ev_stream = FALSE
    /\ chunk_count = 0

\* The request arrives: dependencies are parsed, the thread id is chosen, the
\* graph is selected and the config is built (all before the try block).
StreamRequest ==
    /\ ev_pc = "idle"
    /\ UNCHANGED <<graph_vars, boot_vars, reg_vars, fld_vars, win_vars, gather_vars, rem_vars>>
    /\ \E agent_id \in AgentIds, stream \in BOOLEAN, session_id \in SessionIds :
         /\ ev_agent' = agent_id
         /\ ev_stream' = stream
         /\ thread_id' = IF session_id # None THEN session_id ELSE "thread_uuid"
    /\ ev_pc' = "try"
    /\ UNCHANGED <<events, chunk_count>>

\* The RunStarted event, first statement of the try block.
SendRunStarted ==
    /\ ev_pc = "try"
    /\ UNCHANGED <<graph_vars, boot_vars, reg_vars, fld_vars, win_vars, gather_vars, rem_vars>>
    /\ events' = Append(events, RunResponseContent("RunStarted", thread_id, None))
    /\ ev_pc' = IF ev_stream THEN "astream" ELSE "ainvoke"
    /\ UNCHANGED <<thread_id, ev_agent, ev_stream, chunk_count>>

\* One iteration of the loop over graph.astream: the events of one chunk.
StreamChunk ==
    /\ ev_pc = "astream"
    /\ chunk_count < MaxChunks
    /\ UNCHANGED <<graph_vars, boot_vars, reg_vars, fld_vars, win_vars, gather_vars, rem_vars>>
    /\ \E chunk \in Chunks : events' = events \o ChunkEvents(chunk, thread_id)
    /\ chunk_count' = chunk_count + 1
    /\ UNCHANGED <<ev_pc, thread_id, ev_agent, ev_stream>>

\* graph.astream, or the handling of a chunk, raises: the inner handler logs
\* and re-raises, the outer handler takes over.
StreamRaises ==
    /\ ev_pc = "astream"
    /\ UNCHANGED <<graph_vars, boot_vars, reg_vars, fld_vars, win_vars, gather_vars, rem_vars>>
    /\ ev_pc' = "except"
    /\ UNCHANGED <<events, thread_id, ev_agent, ev_stream, chunk_count>>

\* graph.astream is exhausted.
StreamExhausted ==
    /\ ev_pc = "astream"
    /\ UNCHANGED <<graph_vars, boot_vars, reg_vars, fld_vars, win_vars, gather_vars, rem_vars>>
    /\ ev_pc' = IF ev_agent = "orchestrator" THEN "aget_state" ELSE "completed"
    /\ UNCHANGED <<events, thread_id, ev_agent, ev_stream, chunk_count>>

\* Orchestrator only: the final state is read and its commands are yielded;
\* an exception here is logged and swallowed.
ReadFinalState ==
    /\ ev_pc = "aget_state"
    /\ UNCHANGED <<graph_vars, boot_vars, reg_vars, fld_vars, win_vars, gather_vars, rem_vars>>
    /\ \/ UNCHANGED events
       \/ \E final_state \in FinalStates :
            events' = events \o FinalStateEvents(final_state, thread_id)
    /\ ev_pc' = "completed"
    /\ UNCHANGED <<thread_id, ev_agent, ev_stream, chunk_count>>

\* stream = False: graph.ainvoke returns and the last message is yielded, or
\* it raises.
Invoke ==
    /\ ev_pc = "ainvoke"
    /\ UNCHANGED <<graph_vars, boot_vars, reg_vars, fld_vars, win_vars, gather_vars, rem_vars>>
    /\ \/ /\ events' = Append(events, RunResponseContent("RunContent", thread_id, "text"))
          /\ ev_pc' = "completed"
       \/ /\ ev_pc' = "except"
          /\ UNCHANGED events
    /\ UNCHANGED <<thread_id, ev_agent, ev_stream, chunk_count>>

\* As SendRunCompleted, with the handler of the try block run after it.
SendRunCompleted_then_error ==
    /\ ev_pc = "completed"
    /\ UNCHANGED <<graph_vars, boot_vars, reg_vars, fld_vars, win_vars, gather_vars, rem_vars>>
    /\ events' = Append(events, RunResponseContent("RunCompleted", thread_id, None))
    /\ ev_pc' = "except"
    /\ UNCHANGED <<thread_id, ev_agent, ev_stream, chunk_count>>

\* The RunCompleted event, last statement of the try block.
SendRunCompleted ==
    /\ ev_pc = "completed"
    /\ UNCHANGED <<graph_vars, boot_vars, reg_vars, fld_vars, win_vars, gather_vars, rem_vars>>
    /\ events' = Append(events, RunResponseContent("RunCompleted", thread_id, None))
    /\ ev_pc' = "done"
    /\ UNCHANGED <<thread_id, ev_agent, ev_stream, chunk_count>>

\* The handler of the outer try block: the RunError event.
SendRunError ==
    /\ ev_pc = "except"
    /\ UNCHANGED <<graph_vars, boot_vars, reg_vars, fld_vars, win_vars, gather_vars, rem_vars>>
    /\ events' = Append(events, RunResponseContent("RunError", thread_id, "error"))
    /\ ev_pc' = "done"
    /\ UNCHANGED <<thread_id, ev_agent, ev_stream, chunk_count>>

\* ---------------------------------------------------------------------
\* Startup (main.py lifespan) and the checkpoint store
\* (core/langgraph_checkpoint.py)
\* ---------------------------------------------------------------------
\* init_checkpointer: the module globals it leaves behind and whether it
\* raised.  _pool is assigned before open(), _checkpointer before setup().
init_checkpointer(outcome) ==
    CASE outcome = "open_fails" ->
           [pool |-> "pool", checkpointer |-> None, tables_created |-> FALSE,
            raised |-> TRUE]
      [] outcome = "setup_fails" ->
           [pool |-> "pool", checkpointer |-> "saver", tables_created |-> FALSE,
            raised |-> TRUE]
      [] OTHER ->
           [pool |-> "pool", checkpointer |-> "saver", tables_created |-> TRUE,
            raised |-> FALSE]

InitOutcomes == {"ok", "open_fails", "setup_fails"}

\* get_checkpointer: the module global, None when it was never assigned.
get_checkpointer == checkpointer

\* workflow.compile(checkpointer=...) in the three graph constructors.
compile(saver) == IF saver # None THEN "checkpointer" ELSE "memory"

BootIdle ==
    /\ boot_pc = "init_db"
    /\ db_initialized = FALSE
    /\ pool = None
    /\ checkpointer = None
    /\ tables_created = FALSE
    /\ init_failed = FALSE
    /\ scheduler_running = FALSE
    /\ compiled = [a \in AgentIds |-> None]

\* lifespan: init_db() in its try block.
InitDb ==
    /\ boot_pc = "init_db"
    /\ UNCHANGED <<graph_vars, stream_vars, reg_vars, fld_vars, win_vars, gather_vars, rem_vars>>
    /\ db_initialized' \in BOOLEAN
    /\ boot_pc' = "init_checkpointer"
    /\ UNCHANGED <<pool, checkpointer, tables_created, init_failed,
                   scheduler_running, compiled>>

\* lifespan: await init_checkpointer() in its try block; the handler prints a
\* warning and startup goes on.
InitCheckpointer ==
    /\ boot_pc = "init_checkpointer"
    /\ UNCHANGED <<graph_vars, stream_vars, reg_vars, fld_vars, win_vars, gather_vars, rem_vars>>
    /\ \E outcome \in InitOutcomes :
         LET r == init_checkpointer(outcome)
         IN  /\ pool' = r.pool
             /\ checkpointer' = r.checkpointer
             /\ tables_created' = r.tables_created
             /\ init_failed' = r.raised
    /\ boot_pc' = "init_scheduler"
    /\ UNCHANGED <<db_initialized, scheduler_running, compiled>>

\* lifespan: init_scheduler() in its try block, then the application serves.
InitScheduler ==
    /\ boot_pc = "init_scheduler"
    /\ UNCHANGED <<graph_vars, stream_vars, reg_vars, fld_vars, win_vars, gather_vars, rem_vars>>
    /\ scheduler_running' \in BOOLEAN
    /\ boot_pc' = "serving"
    /\ UNCHANGED <<db_initialized, pool, checkpointer, tables_created,
                   init_failed, compiled>>

\* A request makes a graph constructor run: create_orchestrator_graph,
\* create_deep_task_researcher or create_task_igniter_graph.
CompileGraph ==
    /\ boot_pc = "serving"
    /\ UNCHANGED <<graph_vars, stream_vars, reg_vars, fld_vars, win_vars, gather_vars, rem_vars>>
    /\ \E agent_id \in AgentIds :
         /\ agent_id # "deep-task-researcher" => compiled[agent_id] = None
         /\ compiled' = [compiled EXCEPT ![agent_id] = compile(get_checkpointer)]
    /\ UNCHANGED <<boot_pc, db_initialized, pool, checkpointer, tables_created,
                   init_failed, scheduler_running>>

\* lifespan after yield: shutdown_scheduler, then shutdown_checkpointer, which
\* closes the pool and clears both globals unless close() raises.
Shutdown ==
    /\ boot_pc = "serving"
    /\ UNCHANGED <<graph_vars, stream_vars, reg_vars, fld_vars, win_vars, gather_vars, rem_vars>>
    /\ boot_pc' = "stopped"
    /\ scheduler_running' = FALSE
    /\ \/ pool # None /\ pool' = None /\ checkpointer' = None
       \/ UNCHANGED <<pool, checkpointer>>
    /\ UNCHANGED <<db_initialized, tables_created, init_failed, compiled>>

\* ---------------------------------------------------------------------
\* apply_sliding_window called on a message list
\* ---------------------------------------------------------------------
\* The longest enumerated message list.
MaxWinLen == 4

\* The largest enumerated window size below the Loader's.
MaxWindow == 3

MsgTypes == {"system", "human", "ai"}

\* The message list with the given types, each message with its position
\* as id.
MessagesOf(types) ==
    [i \in 1..Len(types) |-> Msg(i, types[i], None, <<>>, <<>>, None)]

\* 3 system and 14 non-system messages, the system messages first, spread
\* or last.
LongHistories ==
    {MessagesOf([i \in 1..17 |-> IF i \in at THEN "system" ELSE "human"]) :
        at \in {{1, 2, 3}, {1, 9, 17}, {15, 16, 17}}}

WinMessages ==
    {MessagesOf(types) : types \in UNION {[1..n -> MsgTypes] : n \in 0..MaxWinLen}}
        \cup LongHistories

WinSizes == 0..MaxWindow \cup {WindowSize}

WinIdle ==
    /\ win_pc = "off"
    /\ win_messages = <<>>
    /\ win_size = WindowSize
    /\ win_out = <<>>

WinInit ==
    /\ win_pc = "call"
    /\ win_messages \in WinMessages
    /\ win_size \in WinSizes
    /\ win_out = <<>>

ApplySlidingWindow ==
    /\ win_pc = "call"
    /\ win_out' = apply_sliding_window(win_messages, win_size)
    /\ win_pc' = "done"
    /\ UNCHANGED <<win_messages, win_size>>
    /\ UNCHANGED <<graph_vars, stream_vars, boot_vars, reg_vars, fld_vars, gather_vars, rem_vars>>

\* ---------------------------------------------------------------------
\* override_reducer applied to one field, update after update
\* ---------------------------------------------------------------------
\* The longest list an update or the initial field holds.
MaxItems == 2

\* The most updates applied to the field.
MaxUpdates == 2

Items == {"x", "y"}

\* The lists over Items of at most MaxItems entries.
ItemLists == UNION {[1..n -> Items] : n \in 0..MaxItems}

Updates == {Plain(v) : v \in ItemLists} \cup {Override(v) : v \in ItemLists}

FldIdle ==
    /\ fld = <<>>
    /\ fld_none = TRUE
    /\ upd = Plain(<<>>)
    /\ prev = <<>>
    /\ prev_none = TRUE
    /\ ops = 0

\* The field before any update: None, or any list.
FldInit ==
    /\ fld_none \in BOOLEAN
    /\ fld \in (IF fld_none THEN {<<>>} ELSE ItemLists)
    /\ upd = Plain(<<>>)
    /\ prev = fld
    /\ prev_none = fld_none
    /\ ops = 0

\* The engine merges one update into the field through override_reducer.
ApplyUpdate ==
    /\ ops < MaxUpdates
    /\ UNCHANGED <<graph_vars, stream_vars, boot_vars, reg_vars, win_vars, gather_vars, rem_vars>>
    /\ \E new_value \in Updates :
         /\ upd' = new_value
         /\ fld' = override_reducer(current_list(fld_none, fld), new_value)
    /\ fld_none' = FALSE
    /\ prev' = fld
    /\ prev_none' = fld_none
    /\ ops' = ops + 1

\* ---------------------------------------------------------------------
\* SkillRegistry (skills/registry.py): one skill document and its cache
\* ---------------------------------------------------------------------
\* The modification times the document may carry.
MaxMtime == 2

\* The most times the document is rewritten.
MaxVersions == 3

\* A SkillDef: the version of the content it was parsed from, and (history)
\* the modification time the document had when it was read.
SkillDef(version, mtime) == [version |-> version, read_mtime |-> mtime]

NoSkill == SkillDef(0, 0)

Entry(present, value) == [present |-> present, value |-> value]

\* As load_skill, with a cache that is never checked against the mtime.
load_skill_no_mtime(d, c, m, force_reload) ==
    IF ~d.exists
    THEN [kind |-> "raised", skill |-> NoSkill, cache |-> c, file_mtimes |-> m]
    ELSE LET current_mtime == d.mtime
         IN  IF ~force_reload /\ c.present
             THEN [kind |-> "cached", skill |-> c.value, cache |-> c, file_mtimes |-> m]
             ELSE IF ~d.parses
             THEN [kind |-> "raised", skill |-> NoSkill, cache |-> c, file_mtimes |-> m]
             ELSE LET skill == SkillDef(d.version, current_mtime)
                  IN  [kind |-> "loaded", skill |-> skill,
                       cache |-> Entry(TRUE, skill),
                       file_mtimes |-> Entry(TRUE, current_mtime)]

\* SkillRegistry.load_skill on document d with cache entry c and recorded
\* mtime m: what it returns (or that it raised) and the entries afterwards.
load_skill(d, c, m, force_reload) ==
    IF ~d.exists
    THEN [kind |-> "raised", skill |-> NoSkill, cache |-> c, file_mtimes |-> m]
    ELSE LET current_mtime == d.mtime
         IN  IF ~force_reload /\ c.present /\ m.present /\ m.value = current_mtime
             THEN [kind |-> "cached", skill |-> c.value, cache |-> c, file_mtimes |-> m]
             ELSE IF ~d.parses
             THEN [kind |-> "raised", skill |-> NoSkill, cache |-> c, file_mtimes |-> m]
             ELSE LET skill == SkillDef(d.version, current_mtime)
                  IN  [kind |-> "loaded", skill |-> skill,
                       cache |-> Entry(TRUE, skill),
                       file_mtimes |-> Entry(TRUE, current_mtime)]

RegIdle ==
    /\ doc = [exists |-> TRUE, mtime |-> 1, version |-> 1, parses |-> TRUE]
    /\ cache = Entry(FALSE, NoSkill)
    /\ file_mtimes = Entry(FALSE, 0)
    /\ last_call = [seq |-> 0, force_reload |-> FALSE, kind |-> None, skill |-> NoSkill]

\* The skill document is rewritten (or removed) outside the program: new
\* content, any modification time.
ModifyDocument ==
    /\ doc.version < MaxVersions
    /\ UNCHANGED <<graph_vars, stream_vars, boot_vars, fld_vars, win_vars, gather_vars, rem_vars>>
    /\ \E exists \in BOOLEAN, mtime \in 1..MaxMtime, parses \in BOOLEAN :
         doc' = [exists |-> exists, mtime |-> mtime, version |-> doc.version + 1,
                 parses |-> parses]
    /\ UNCHANGED <<cache, file_mtimes, last_call>>

\* One call of load_skill(name, force_reload).
LoadSkill ==
    /\ UNCHANGED <<graph_vars, stream_vars, boot_vars, fld_vars, win_vars, gather_vars, rem_vars>>
    /\ \E force_reload \in BOOLEAN :
         LET r == load_skill(doc, cache, file_mtimes, force_reload)
         IN  /\ cache' = r.cache
             /\ file_mtimes' = r.file_mtimes
             /\ last_call' = [seq |-> 1 - last_call.seq, force_reload |-> force_reload,
                               kind |-> r.kind, skill |-> r.skill]
    /\ UNCHANGED doc

\* SkillRegistry.clear_cache.
ClearCache ==
    /\ UNCHANGED <<graph_vars, stream_vars, boot_vars, fld_vars, win_vars, gather_vars, rem_vars>>
    /\ cache' = Entry(FALSE, NoSkill)
    /\ file_mtimes' = Entry(FALSE, 0)
    /\ UNCHANGED <<doc, last_call>>

\* ---------------------------------------------------------------------
\* Specifications
\* ---------------------------------------------------------------------
\* A graph that is not running in a specification stays in this state.
OrchFields ==
    /\ step = 0
    /\ messages = <<>>
    /\ next_id = 1
    /\ failed_in = None
    /\ current_skill = None
    /\ skill_sop = None
    /\ available_tools = <<>>
    /\ ui_commands = <<>>
    /\ iteration_count = 0
    /\ plan = <<>>
    /\ visits = 0
    /\ llm_calls = 0
    /\ always_calls = TRUE
    /\ turn_text = <<>>

OrchQuiet == pc = "START" /\ OrchFields

OrchIdle == OrchQuiet /\ llm_provider = "supported"

SupIdle ==
    /\ sup_pc = "START"
    /\ supervisor_messages = <<>>
    /\ notes = <<>>
    /\ research_iterations = 0
    /\ round_results = <<>>

ResIdle ==
    /\ res_pc = "START"
    /\ researcher_messages = <<>>
    /\ tool_call_iterations = 0
    /\ compressed_research = Text("", <<>>)
    /\ block_content = FALSE
    /\ tools_visits = 0
    /\ res_failed_in = None

\* No specialist visit has happened.
VisitIdle == visit_log = NoVisit /\ router_log = "not called"

\* The components that are not graphs, before anything happened.
AuxIdle ==
    /\ StreamIdle /\ BootIdle /\ RegIdle /\ FldIdle /\ WinIdle /\ GatherIdle
    /\ RemIdle

ExtIdle == VisitIdle /\ AuxIdle

\* One turn of the orchestrator on a thread with or without history.
OrchTexts == {<<"delete task">>, <<"hello">>, <<>>}

OrchStart == \E text \in OrchTexts, p \in Plans : StartTurn(text, p)

SpecOrchInit ==
    /\ OrchInit({0, MaxPriorTurns}, {<<"hello">>})
    /\ SupIdle /\ ResIdle /\ MainInit /\ ExtIdle

OrchNext ==
    \/ OrchStart
    \/ RouterNode
    \/ LoaderNode
    \/ SpecialistNode
    \/ ContinueCheck
    \/ IdleNode
    \/ EngineAbort

SpecOrch == SpecOrchInit /\ [][OrchNext]_vars

\* The router alone, on every text and every history.
RouterStart == \E text \in Texts : StartTurn(text, <<Call("task_create", "ok")>>)

SpecRouterInit ==
    /\ OrchInit(0..MaxPriorTurns, {<<"hello">>, <<"create note">>})
    /\ SupIdle /\ ResIdle /\ MainInit /\ ExtIdle

RouterNext ==
    \/ RouterStart
    \/ RouterNode

SpecRouter == SpecRouterInit /\ [][RouterNext]_vars

\* One run of the supervisor subgraph.
SpecSupInit == SupInit /\ OrchIdle /\ ResIdle /\ MainInit /\ ExtIdle

SupNext ==
    \/ SupervisorNode
    \/ SupervisorTools

SpecSup == SpecSupInit /\ [][SupNext]_vars

\* One run of the researcher subgraph.
SpecResInit == ResInit /\ OrchIdle /\ SupIdle /\ MainInit /\ ExtIdle

ResNext ==
    \/ ResearcherNode
    \/ ResearcherTools
    \/ CompressResearch

SpecRes == SpecResInit /\ [][ResNext]_vars

\* Turns of the deep researcher on one thread.
SpecMainInit ==
    /\ MainInit
    /\ OrchQuiet /\ llm_provider \in {"supported", "unsupported"}
    /\ SupIdle /\ ResIdle /\ ExtIdle

MainNext ==
    \/ DtStartTurn
    \/ ClarifyNode
    \/ WriteResearchBrief
    \/ ResearchSupervisor
    \/ FinalDecomposition

SpecMain == SpecMainInit /\ [][MainNext]_vars

\* One request to stream_agent_run.
GraphsIdle == OrchIdle /\ SupIdle /\ ResIdle /\ MainInit /\ VisitIdle

SpecStreamInit ==
    StreamIdle /\ GraphsIdle /\ BootIdle /\ RegIdle /\ FldIdle /\ WinIdle /\ GatherIdle /\ RemIdle

StreamNext ==
    \/ StreamRequest
    \/ SendRunStarted
    \/ StreamChunk
    \/ StreamRaises
    \/ StreamExhausted
    \/ ReadFinalState
    \/ Invoke
    \/ SendRunCompleted
    \/ SendRunError

SpecStream == SpecStreamInit /\ [][StreamNext]_vars

\* Startup, graph construction on requests, and shutdown.
SpecBootInit ==
    BootIdle /\ GraphsIdle /\ StreamIdle /\ RegIdle /\ FldIdle /\ WinIdle /\ GatherIdle /\ RemIdle

BootNext ==
    \/ InitDb
    \/ InitCheckpointer
    \/ InitScheduler
    \/ CompileGraph
    \/ Shutdown

SpecBoot == SpecBootInit /\ [][BootNext]_vars

\* Loads, rewrites of the document and cache clears in any order.
SpecRegInit ==
    RegIdle /\ GraphsIdle /\ StreamIdle /\ BootIdle /\ FldIdle /\ WinIdle /\ GatherIdle /\ RemIdle

RegNext ==
    \/ ModifyDocument
    \/ LoadSkill
    \/ ClearCache

SpecReg == SpecRegInit /\ [][RegNext]_vars

\* One run of one of the graphs whose message history is merged by an
\* appending reducer: the orchestrator, the researcher or the main graph.
\* The graphs that do not run are off.
SpecAppendInit ==
    /\ \/ /\ OrchInit({0, MaxPriorTurns}, {<<"hello">>})
          /\ ResIdle
          /\ dt_pc = "off" /\ MainFields
       \/ /\ pc = "off" /\ OrchFields /\ llm_provider = "supported"
          /\ ResInit
          /\ dt_pc = "off" /\ MainFields
       \/ /\ pc = "off" /\ OrchFields /\ llm_provider = "supported"
          /\ ResIdle
          /\ MainInit
    /\ SupIdle /\ ExtIdle

AppendNext ==
    \/ OrchStart
    \/ RouterNode
    \/ LoaderNode
    \/ SpecialistNode
    \/ ContinueCheck
    \/ IdleNode
    \/ EngineAbort
    \/ ResearcherNode
    \/ ResearcherTools
    \/ CompressResearch
    \/ DtStartTurn
    \/ ClarifyNode
    \/ WriteResearchBrief
    \/ ResearchSupervisor
    \/ FinalDecomposition

SpecAppend == SpecAppendInit /\ [][AppendNext]_vars

\* Updates applied to one override-or-append field.
SpecFldInit ==
    FldInit /\ GraphsIdle /\ StreamIdle /\ BootIdle /\ RegIdle /\ WinIdle /\ GatherIdle /\ RemIdle

FldNext == ApplyUpdate

SpecFld == SpecFldInit /\ [][FldNext]_vars

\* The supervisor subgraph with the researchers of a round as concurrent runs.
RoundNext ==
    \/ SupervisorNode
    \/ GatherLaunch
    \/ ResearcherFinishes
    \/ GatherJoin

SpecRound == SpecSupInit /\ [][RoundNext]_vars

\* The reminder service on one task.
SpecRemInit ==
    /\ RemInit
    /\ GraphsIdle /\ StreamIdle /\ BootIdle /\ RegIdle /\ FldIdle /\ WinIdle
    /\ GatherIdle

RemNext ==
    \/ AdvanceClock
    \/ ScannerTick
    \/ ImmediateReminder

SpecRem == SpecRemInit /\ [][RemNext]_vars

\* Calls of apply_sliding_window.
SpecWinInit ==
    WinInit /\ GraphsIdle /\ StreamIdle /\ BootIdle /\ RegIdle /\ FldIdle
        /\ GatherIdle /\ RemIdle

WinNext == ApplySlidingWindow

SpecWin == SpecWinInit /\ [][WinNext]_vars

\* The researcher subgraph under the engine's scheduling: a pending node runs.
SpecResFair == SpecResInit /\ [][ResNext]_vars /\ WF_vars(ResNext)

\* ---------------------------------------------------------------------
\* Properties
\* ---------------------------------------------------------------------

\* C1: a run through the router in which every completion requests another
\* capability call is not stopped by the engine, and ends only after exactly
\* 15 specialist visits, with iteration_count = 15 and current_skill cleared.
C1_CeilingTermination ==
    (always_calls /\ visits > 0) =>
        /\ pc # "recursion_error"
        /\ pc = "END" => /\ visits = 15
                         /\ iteration_count = 15
                         /\ current_skill = None

\* C2: once loader_node's update is merged, the history specialist_node reads
\* has at most 10 non-system messages (the orchestrator state holds no system
\* message, so none can be lost).
C2_LoaderWindow ==
    (pc = "specialist" /\ visits = 0 /\ skill_sop # None) =>
        Len(NonSystem(messages)) <= 10

\* The successful results of the rounds, round by round.
RECURSIVE SuccessfulResults(_)
SuccessfulResults(rounds) ==
    IF rounds = <<>> THEN <<>>
    ELSE LET good == SelectSeq(Head(rounds), LAMBDA r : r.success)
         IN  [i \in 1..Len(good) |-> good[i].result]
             \o SuccessfulResults(Tail(rounds))

\* C3: after any number of rounds, notes is the concatenation, round by round,
\* of the successful researcher results, each exactly once.
C3_NotesOnce == notes = SuccessfulResults(round_results)

ToolEntries(id) ==
    {j \in 1..Len(supervisor_messages) :
        /\ supervisor_messages[j].type = "tool"
        /\ supervisor_messages[j].tool_call_id = id}

\* C4: every delegation of a completed round has exactly one tool-result entry
\* with its call id in the transcript, whether its researcher returned or
\* raised, and every researcher of the round was run.
C4_OneResultPerDelegation ==
    /\ \A i \in 1..(Len(supervisor_messages) - 1) :
         supervisor_messages[i].type = "ai" =>
           \A k \in 1..Len(supervisor_messages[i].tool_calls) :
             LET tc == supervisor_messages[i].tool_calls[k]
             IN  tc.name = "ConductResearch" => Cardinality(ToolEntries(tc.id)) = 1
    /\ \A r \in 1..Len(round_results) :
         \A k \in 1..Len(round_results[r]) :
           \E j \in ToolEntries(round_results[r][k].tool_call_id) :
             supervisor_messages[j].content = round_results[r][k].result

C4_Witness ==
    /\ sup_pc = "supervisor"
    /\ \E r \in 1..Len(round_results) :
         \E a, b \in 1..Len(round_results[r]) :
           round_results[r][a].success /\ ~round_results[r][b].success

\* C5: there are at most 6 supervisor_tools rounds; the 6th goes to END, and its
\* last transcript entry is the limit-reached notice.
C5_RoundCeiling ==
    /\ Len(round_results) <= 6
    /\ research_iterations = Len(round_results)
    /\ Len(round_results) = 6 =>
         /\ sup_pc = "END"
         /\ supervisor_messages[Len(supervisor_messages)].tool_call_id = system_limit
         /\ supervisor_messages[Len(supervisor_messages)].content.kind = "limit reached"

C5_Witness == Len(round_results) = 6 /\ sup_pc = "END"

\* C6: researcher_tools is visited at most 10 times, after the 10th visit
\* control is at compress_research or past it, and a run that does not fail
\* reaches compress_research.
C6_ToolVisitCeiling ==
    /\ [](tools_visits <= 10)
    /\ []((tools_visits = 10 /\ res_pc # "failed") =>
            res_pc \in {"compress_research", "END"})
    /\ <>(res_pc \in {"compress_research", "failed"})

C6_Witness == tools_visits = 10 /\ res_pc = "compress_research"

\* C7: a researcher run never fails, and ends with the structured summary or
\* the raw-transcript fallback as compressed_research.
C7_AlwaysOutput ==
    /\ res_pc # "failed"
    /\ res_pc = "END" => compressed_research.kind \in {"summary", "raw transcript"}

\* C8: a structured completion is attempted at most 3 times, and no node of
\* the main graph that requests one lets its failure end the run.
C8_RetryThenFallback ==
    /\ attempts <= 3
    /\ llm_provider = "supported" =>
           dt_failed_in \notin {"clarify", "write_research_brief", "final_decomposition"}

\* C9: router_node never fails the run.
C9_RouterNeverFails == failed_in # "router"

\* C10: when the user message of the turn contains a task keyword, the router
\* selects task_manager and makes no language-model call.
C10_KeywordRoute ==
    (pc \notin {"START", "router"} /\ \E kw \in TASK_KEYWORDS : Contains(turn_text, kw)) =>
        /\ current_skill = "task_manager"
        /\ llm_calls = 0
        /\ pc = "loader"

C10_Witness ==
    /\ pc = "loader"
    /\ llm_calls = 0
    /\ turn_text = <<"create note", "delete task">>
    /\ Len(messages) > 1
    /\ messages[1].content = <<"create note">>

\* C11: in a specialist visit whose first completion requests capability
\* calls, every requested call gets exactly one tool-result message with the
\* call's id (the capability's output, or an error text when it raises or is
\* not among the permitted ones), the follow-up completion is invoked, and
\* the capability's failure does not end the run.
C11_OneResultPerCall ==
    visit_log.requested # <<>> =>
        /\ Len(visit_log.results) = Len(visit_log.requested)
        /\ \A i \in 1..Len(visit_log.requested) :
             /\ visit_log.results[i].type = "tool"
             /\ visit_log.results[i].tool_call_id = visit_log.requested[i].id
             /\ visit_log.results[i].content =
                    IF ~InSeq(plan[i].name, available_tools) THEN <<"not found">>
                    ELSE IF plan[i].outcome = "raises" THEN <<"Error executing">>
                    ELSE IF plan[i].outcome = "crud_raises" THEN <<"Error:">>
                    ELSE <<"result">>
        /\ visit_log.followup
        /\ pc # "failed"

\* A visit in which a requested capability raised and the node went on.
C11_Witness ==
    /\ visits > 0
    /\ \E i \in 1..Len(visit_log.results) :
         visit_log.results[i].content = <<"Error executing">>
    /\ pc = "continue_check"

\* C12: a step of final_decomposition always takes the run to END with
\* final_output set and the same text appended as the last assistant message
\* (the formatted decomposition, or the error explanation on a failure).
C12_FinalAlwaysEnds ==
    [][dt_pc = "final_decomposition" =>
          /\ dt_pc' = "END"
          /\ final_output' # NoneText
          /\ Len(dt_messages') = Len(dt_messages) + 1
          /\ dt_messages'[Len(dt_messages')].type = "ai"
          /\ dt_messages'[Len(dt_messages')].content = final_output'
          /\ SubSeq(dt_messages', 1, Len(dt_messages)) = dt_messages]_vars

\* A run whose final structured completion failed and that ended normally.
C12_Witness ==
    /\ dt_pc = "END"
    /\ final_output = <<"error explanation">>
    /\ attempts = RETRY_ATTEMPTS

\* C13: a successful final synthesis has 3 to 5 subtasks and its formatted
\* output marks exactly one of them as the minimum viable task.
C13_OneMinimumViable ==
    (dt_pc = "END" /\ Head(final_output) = "title") =>
        /\ Len(final_output) - 1 \in 3..5
        /\ Cardinality({j \in 2..Len(final_output) : final_output[j] = "star"}) = 1

\* C14: when clarify_node decides that clarification is needed, its update
\* sets needs_clarification, appends the question as an assistant message and
\* changes nothing else, the run ends there, and no later node of the graph
\* runs in that run; otherwise the next node is write_research_brief.
C14_ClarifyEndsRun ==
    /\ [][(dt_pc = "clarify" /\ dt_pc' # "failed") =>
            IF needs_clarification'
            THEN /\ dt_pc' = "END"
                 /\ Len(dt_messages') = Len(dt_messages) + 1
                 /\ SubSeq(dt_messages', 1, Len(dt_messages)) = dt_messages
                 /\ dt_messages'[Len(dt_messages')].type = "ai"
                 /\ dt_messages'[Len(dt_messages')].content = <<"question">>
                 /\ UNCHANGED <<research_brief, dt_supervisor_messages, dt_notes,
                                final_output>>
            ELSE dt_pc' = "write_research_brief"]_vars
    /\ [](needs_clarification =>
            /\ dt_pc = "END"
            /\ research_brief = None
            /\ final_output = NoneText)

\* A run that ended with the clarifying question.
C14_Witness ==
    /\ dt_pc = "END"
    /\ needs_clarification
    /\ dt_messages[Len(dt_messages)].content = <<"question">>

TerminalEvents == {"RunCompleted", "RunError"}

C16_DegradesToMemory ==
    init_failed =>
        /\ boot_pc \in {"init_scheduler", "serving", "stopped"}
        /\ get_checkpointer = None
        /\ \A a \in AgentIds : compiled[a] \in {None, "memory"}

\* C17: a skill that cannot be validly loaded (document absent or without
\* its tools metadata, or naming a capability that is not registered) ends
\* the run with a failure: the specialist is never entered with such a skill
\* and the failure is never turned into an assistant reply.
C17_InvalidSkillFailsRun ==
    /\ pc = "specialist" =>
          /\ skill_sop # None
          /\ \A i \in 1..Len(available_tools) : available_tools[i] \in TOOL_REGISTRY
    /\ \A i \in 1..Len(messages) :
          messages[i].content \notin {<<"No tools available">>, <<"Failed to load tools">>}

\* C18: a load_skill call without force_reload that returns, returns the
\* cached definition exactly when a definition is cached and the recorded
\* modification time equals the document's; otherwise it parses the current
\* content and records it with the current modification time.  What it
\* returns was read at the document's current modification time.
C18_CacheByMtime ==
    [][(last_call'.seq # last_call.seq /\ last_call'.kind # "raised") =>
         LET hit == cache.present /\ file_mtimes.present /\ file_mtimes.value = doc.mtime
         IN  /\ ~last_call'.force_reload => ((last_call'.kind = "cached") <=> hit)
             /\ last_call'.kind = "cached" =>
                   /\ last_call'.skill = cache.value
                   /\ UNCHANGED <<cache, file_mtimes>>
             /\ last_call'.kind = "loaded" =>
                   /\ last_call'.skill.version = doc.version
                   /\ cache' = Entry(TRUE, last_call'.skill)
                   /\ file_mtimes' = Entry(TRUE, doc.mtime)
             /\ last_call'.skill.read_mtime = doc.mtime]_vars

\* A call answered from the cache although the document was rewritten with
\* the same modification time.
C18_Witness ==
    /\ last_call.kind = "cached"
    /\ last_call.skill.version < doc.version
    /\ last_call.skill.read_mtime = doc.mtime
    /\ doc.exists

IsPrefix(s, t) == Len(s) <= Len(t) /\ SubSeq(t, 1, Len(s)) = s

\* Two messages a node creates, given the ids the merge assigns to them.
FreshPair(first) ==
    AssignIds(<<AIMessage(<<"a">>, <<>>), AIMessage(<<"b">>, <<>>)>>, first)

\* Applying [a] and then [b], both newly created, appends a and then b.
AppendsFresh(field, first) ==
    LET ab == FreshPair(first)
    IN  add_messages(add_messages(field, <<ab[1]>>), <<ab[2]>>) = field \o ab

\* No step removes, replaces or reorders an entry of an appended field.
HistoriesKept ==
    [][/\ IsPrefix(messages, messages')
       /\ IsPrefix(dt_messages, dt_messages')
       /\ IsPrefix(researcher_messages, researcher_messages')]_vars

C20_OverrideOrAppend ==
    ops > 0 =>
        /\ upd.type = "override" => fld = upd.value
        /\ upd.type = "list" =>
              fld = (IF prev_none THEN <<>> ELSE prev) \o upd.value

\* An override that discarded content: the field held entries and the
\* override's value holds fewer.
C20_Witness ==
    /\ ops > 0
    /\ upd.type = "override"
    /\ Len(prev) > Len(upd.value)
    /\ fld = upd.value

\* The last n entries of a list (all of them when there are fewer).
LastN(seq, n) == SubSeq(seq, Len(seq) - n + 1, Len(seq))

MinOf(a, b) == IF a < b THEN a ELSE b

\* C21: apply_sliding_window returns all system messages in their order,
\* then the last min(n, k) of the k non-system messages in their order; 3
\* system and 14 non-system messages with n = 10 give 13 messages.
C21_SlidingWindow ==
    win_pc = "done" =>
        LET k == Len(NonSystem(win_messages))
        IN  /\ win_out = SystemOnly(win_messages)
                            \o LastN(NonSystem(win_messages), MinOf(win_size, k))
            /\ (win_messages \in LongHistories /\ win_size = 10)
                  => Len(win_out) = 13

\* C22: the researchers of a round are started together, and while any of
\* them is still running the supervisor node does not run and neither the
\* notes nor the round counter changes.
C22_JoinAllBarrier ==
    /\ [](Running # {} => sup_pc = "gathering")
    /\ [][Running # {} =>
            /\ notes' = notes
            /\ research_iterations' = research_iterations
            /\ supervisor_messages' = supervisor_messages]_vars
    /\ [][gather_n' # gather_n => (Running' = 1..gather_n' /\ gather_done' = <<>>)]_vars

\* A round of two researchers, one of which failed, has been joined and the
\* supervisor is about to run again.
C22_Witness ==
    /\ sup_pc = "supervisor"
    /\ research_iterations >= 1
    /\ gather_n = 2
    /\ Len(gather_done) = 2
    /\ \E j \in 1..2 : ~gather_done[j].res.success

\* The round whose results were joined last, and its results.
Joined ==
    /\ sup_pc \in {"supervisor", "END"}
    /\ gather_n > 0
    /\ round_results # <<>>
    /\ supervisor_messages[Len(supervisor_messages)].type = "tool"

LastResults == round_results[Len(round_results)]

\* C23 as stated: the results of a round are accumulated in the order in
\* which its researchers finished.
C23_CompletionOrder ==
    Joined =>
        LastResults = [j \in 1..Len(gather_done) |-> gather_done[j].res]

\* C23: the results of a round are accumulated, in the transcript and in the
\* notes, in the order in which the delegations were requested, whatever the
\* order in which the researchers finished.
C23_LaunchOrder ==
    Joined =>
        LET last_request ==
                CHOOSE i \in 1..Len(supervisor_messages) :
                    /\ supervisor_messages[i].type = "ai"
                    /\ \A k \in (i + 1)..Len(supervisor_messages) :
                           supervisor_messages[k].type # "ai"
            research_tasks ==
                SelectSeq(supervisor_messages[last_request].tool_calls, IsConductResearch)
            answers ==
                SelectSeq(SubSeq(supervisor_messages, last_request + 1,
                                 Len(supervisor_messages)),
                          LAMBDA m : \E i \in 1..Len(research_tasks) :
                                        m.tool_call_id = research_tasks[i].id)
        IN  /\ [i \in 1..Len(LastResults) |-> LastResults[i].tool_call_id]
                 = [i \in 1..Len(research_tasks) |-> research_tasks[i].id]
            /\ [i \in 1..Len(answers) |-> answers[i].tool_call_id]
                 = [i \in 1..Len(research_tasks) |-> research_tasks[i].id]
            /\ LET good == SelectSeq(LastResults, IsSuccess)
                   n == Len(good)
               IN  SubSeq(notes, Len(notes) - n + 1, Len(notes))
                     = [i \in 1..n |-> good[i].result]

\* A joined round whose second researcher finished before its first, both
\* with success.
C23_Witness ==
    /\ Joined
    /\ Len(gather_done) = 2
    /\ gather_done[1].index = 2
    /\ gather_done[2].index = 1
    /\ gather_done[1].res.success
    /\ gather_done[2].res.success

\* C24: when the structured classification call was made and produced no
\* decision, by returning nothing or by raising, the router has issued the
\* second prompt (its second model call) by the time it chooses idle.
C24_SecondPromptBeforeIdle ==
    (pc = "idle" /\ router_log \in {"none", "raises"}) => llm_calls = 2

\* C25: every visit to specialist_node that returns an update increases
\* iteration_count by exactly 1, whichever path the node took.
C25_CountsEveryVisit ==
    [][(pc = "specialist" /\ visits' = visits + 1 /\ pc' # "failed")
          => iteration_count' = iteration_count + 1]_vars

\* The capabilities invoked in the last specialist visit: the requested calls
\* whose capability the skill permits.
InvokedNames ==
    {visit_log.requested[i].name : i \in
        {j \in 1..Len(visit_log.requested) :
            InSeq(visit_log.requested[j].name, available_tools)}}

Refresh(target) == [type |-> "refresh", target |-> target]

\* C26: after a specialist visit ui_commands holds a refresh command for
\* each UI domain of which a capability was invoked in the visit, and no
\* command when none was invoked.
C26_RefreshPerDomain ==
    pc = "continue_check" =>
        /\ (\E n \in InvokedNames : StartsWith(n, "task_"))
              => InSeq(Refresh("tasks"), ui_commands)
        /\ (\E n \in InvokedNames : StartsWith(n, "note_"))
              => InSeq(Refresh("notes"), ui_commands)
        /\ visit_log = NoVisit => ui_commands = <<>>

\* The positions of the refresh commands for one UI domain in the stream.
RefreshEvents(target) ==
    {i \in 1..Len(events) : events[i].event = "UICommand" /\ events[i].data = target}

Answered(i, k) ==
    \E j \in (i + 1)..Len(messages) :
        /\ messages[j].type = "tool"
        /\ messages[j].tool_call_id = messages[i].tool_calls[k].id

\* C28: whenever the model is about to be invoked again by specialist_node,
\* and when the run has ended, every capability call of every assistant
\* message in the history is answered by a tool-result message with its id.
C28_EveryCallAnswered ==
    pc \in {"specialist", "END"} =>
        \A i \in AIIndexes(messages) :
            \A k \in 1..Len(messages[i].tool_calls) : Answered(i, k)

\* C29: when research_supervisor hands over to final synthesis, the main
\* state's notes and supervisor transcript are exactly those of the
\* supervisor run of this turn, whatever earlier turns left on the thread.
C29_NotesOfThisTurn ==
    [][(dt_pc = "research_supervisor" /\ dt_pc' = "final_decomposition") =>
          \E script \in SupScripts :
              LET result == SupRun(<<>>, <<>>, 0, script)
              IN  /\ dt_notes' = result.notes
                  /\ dt_supervisor_messages' = result.supervisor_messages]_vars

\* C30: whatever the scanner ticks and immediate calls, a task whose
\* start_time does not change is sent at most one start reminder.
C30_OneStartReminder == start_reminders <= 1

====
